---- MODULE Spec2Model ----
(***************************************************************************)
(* Scan Orchestrator of the vulnerability scanner: ScanService             *)
(* (scanRepository, findExistingScan, performScan, formatScanResponse,     *)
(* getScanById, deleteScan, getScanHistory), the ScanResult entity,        *)
(* CacheService and TruffleHogService's URL check.                         *)
(* Every await on the store, the cache or the scanner is one step of the   *)
(* model; the synchronous code after an await belongs to its step, and the *)
(* code before a call's first await to the step of that await.             *)
(***************************************************************************)
EXTENDS Integers, Sequences, FiniteSets, TLC

\* Number of submit requests in one behaviour.
MaxRequests == 2
\* Number of store-write or cache failures injected in one behaviour.
MaxFaults == 1

----------------------------------------------------------------------------
\* Optional values: null is the empty sequence, a present value a singleton.
Null == <<>>
Some(x) == <<x>>

\* enum ScanStatus
PENDING == "pending"
RUNNING == "running"
COMPLETED == "completed"
FAILED == "failed"
ScanStatus == {PENDING, RUNNING, COMPLETED, FAILED}

\* enum GitProvider (two of its five members)
GITHUB == "github"
GITLAB == "gitlab"
GitProvider == {GITHUB, GITLAB}

----------------------------------------------------------------------------
\* Repository URLs. Char(s, i) is the i-th character of s.
Char(s, i) == SubSeq(s, i, i)

Letters == {"a", "b", "f", "h", "p", "s", "t"}
Digits == {"0", "1"}
AlphaNum == Letters \cup Digits

UrlA == "https://a.b"
UrlB == "https://a-b"
UrlHttp == "http://b"
UrlFtp == "ftp://a.b"
UrlNoScheme == "a.b"
UrlNoHost == "http://"

SpecialSchemes == {"http", "https", "ftp"}

\* Index of the first ":" of s, 0 when there is none.
ColonAt(s) ==
    IF \E i \in 1..Len(s) : Char(s, i) = ":"
    THEN CHOOSE i \in 1..Len(s) :
            Char(s, i) = ":" /\ \A j \in 1..(i-1) : Char(s, j) # ":"
    ELSE 0

\* What follows the scheme's ":" once the leading slashes are dropped.
RECURSIVE StripSlashes(_)
StripSlashes(s) ==
    IF Len(s) > 0 /\ Head(s) = "/" THEN StripSlashes(Tail(s)) ELSE s

\* new URL(repoUrl) without a base: a scheme (a letter, then letters, digits,
\* "+", "-", ".") before the first ":"; a special scheme needs a host.
\* ok = FALSE stands for the TypeError the constructor throws.
ParseURL(s) ==
    LET c == ColonAt(s)
        scheme == SubSeq(s, 1, c - 1)
        rest == StripSlashes(SubSeq(s, c + 1, Len(s)))
        schemeOk == /\ c > 1
                    /\ Char(s, 1) \in Letters
                    /\ \A i \in 1..(c-1) :
                            Char(s, i) \in AlphaNum \cup {"+", "-", "."}
    IN  IF schemeOk /\ (scheme \in SpecialSchemes => Len(rest) > 0)
        THEN [ok |-> TRUE, protocol |-> scheme \o ":"]
        ELSE [ok |-> FALSE, protocol |-> ""]

\* A validator that accepts every URL that parses, whatever its protocol.
validateRepositoryUrlAnyProtocol(repoUrl) == ParseURL(repoUrl).ok

\* TruffleHogService.validateRepositoryUrl
validateRepositoryUrl(repoUrl) ==
    LET url == ParseURL(repoUrl)
    IN  url.ok /\ (url.protocol = "http:" \/ url.protocol = "https:")

\* repoUrl.replace(/[^a-zA-Z0-9]/g, '_')
RECURSIVE CleanUrl(_)
CleanUrl(s) ==
    IF Len(s) = 0 THEN ""
    ELSE (IF Head(s) \in AlphaNum THEN Head(s) ELSE "_") \o CleanUrl(Tail(s))

\* CacheService.keyPrefix
keyPrefix == "vuln-scanner:"

\* CacheService.generateScanKey
generateScanKey(repoUrl, provider) ==
    keyPrefix \o "scan:" \o provider \o ":" \o CleanUrl(repoUrl)

----------------------------------------------------------------------------
\* Scanner reports (TruffleHogResult), reduced to what the orchestrator reads.
Finding(type, verified) == [DetectorType |-> type, Verified |-> verified]

\* The report TruffleHogService.scanRepository returns.
MockReport ==
    [vulnerabilities |-> << Finding("AWS", FALSE), Finding("GitHub", TRUE) >>,
     summary |-> [totalFindings |-> 2, verifiedFindings |-> 1,
                  detectorTypes |-> <<"AWS", "GitHub">>]]

Reports == {MockReport}

\* Messages of the errors that can reach performScan's catch block.
ScanErrorMessage == "scan failed"
SaveErrorMessage == "store write failed"
CacheErrorMessage == "cache write failed"

\* The scanRepository calls of the model: one repository with and without
\* each flag, the same repository under another provider, a repository whose
\* cache key differs only by the replaced character, an http URL, and URLs
\* the validator has to reject.
ScanRequests ==
    { <<UrlA, GITHUB, FALSE, FALSE>>, <<UrlA, GITHUB, TRUE, FALSE>>,
      <<UrlA, GITHUB, FALSE, TRUE>>, <<UrlA, GITLAB, FALSE, FALSE>>,
      <<UrlB, GITHUB, FALSE, FALSE>>, <<UrlHttp, GITHUB, FALSE, FALSE>>,
      <<UrlFtp, GITHUB, FALSE, FALSE>>, <<UrlNoScheme, GITHUB, TRUE, FALSE>>,
      <<UrlNoHost, GITLAB, FALSE, TRUE>> }

----------------------------------------------------------------------------
VARIABLES
    store,      \* scan_results table: id -> persisted ScanResult row
    cache,      \* cache manager: key -> cached ScanResponseDto
    reqs,       \* scanRepository calls that have not returned: number -> call
    calls,      \* number of scanRepository calls so far
    returned,   \* the scanRepository call that returned in the last step
    jobs,       \* performScan calls: id -> in-memory entity and position
    nextId,     \* ids handed out so far + 1 (uuid generation, creation clock)
    faults,     \* failures injected so far
    dels,       \* deleteScan calls that have not returned: number -> call
    ndel,       \* number of deleteScan calls so far
    reply,      \* the deleteScan or getScanById call that returned in the last step
    probe       \* a call of a function that reads no state: input and output

vars == <<store, cache, reqs, calls, returned, jobs, nextId, faults,
          dels, ndel, reply, probe>>

----------------------------------------------------------------------------
\* A creation that takes the id of the first job for every job.
NewScanResultReusedId(id, repoUrl, provider, createdAt) ==
    [id |-> 1, repoUrl |-> repoUrl, provider |-> provider, status |-> PENDING,
     result |-> Null, errorMessage |-> Null,
     vulnerabilityCount |-> 0, verifiedVulnerabilityCount |-> 0,
     createdAt |-> createdAt]

\* ScanResult entity as scanResultRepository.create + the insert leave it:
\* the given fields, the generated id and createdAt, the column defaults
\* (scanDuration, metadata and updatedAt, which no step reads, are left out).
NewScanResult(id, repoUrl, provider, createdAt) ==
    [id |-> id, repoUrl |-> repoUrl, provider |-> provider, status |-> PENDING,
     result |-> Null, errorMessage |-> Null,
     vulnerabilityCount |-> 0, verifiedVulnerabilityCount |-> 0,
     createdAt |-> createdAt]

\* ScanResult.isRunning
isRunning(scan) == scan.status = RUNNING \/ scan.status = PENDING

\* vulnerabilities.filter((vuln) => vuln.finding.Verified)
VerifiedOf(vulns) == SelectSeq(vulns, LAMBDA v : v.Verified)

\* A summary update that recounts nothing.
updateSummaryNoRecount(scan) == scan

\* ScanResult.updateSummary
updateSummary(scan) ==
    IF scan.result # Null
    THEN [scan EXCEPT
            !.vulnerabilityCount = Len(scan.result[1].vulnerabilities),
            !.verifiedVulnerabilityCount =
                Len(VerifiedOf(scan.result[1].vulnerabilities))]
    ELSE scan

\* ScanService.formatScanResponse (scanDuration, a wall-clock reading, is
\* left out; errorMessage is Null where the source omits the key).
formatScanResponse(scanResult, fromCache) ==
    [scanId |-> scanResult.id, repoUrl |-> scanResult.repoUrl,
     provider |-> scanResult.provider, status |-> scanResult.status,
     result |-> scanResult.result,
     vulnerabilityCount |-> scanResult.vulnerabilityCount,
     verifiedVulnerabilityCount |-> scanResult.verifiedVulnerabilityCount,
     createdAt |-> scanResult.createdAt, fromCache |-> fromCache,
     errorMessage |-> scanResult.errorMessage]

\* A lookup that forgets the provider.
findExistingScanAnyProvider(repoUrl, provider) ==
    LET found == {id \in DOMAIN store :
                    /\ store[id].repoUrl = repoUrl
                    /\ store[id].status = RUNNING}
    IN  IF found = {} THEN Null
        ELSE Some(store[CHOOSE id \in found :
                    \A o \in found : store[o].createdAt <= store[id].createdAt])

\* ScanService.findExistingScan: findOne where repoUrl, provider and
\* status = RUNNING, order createdAt DESC.
findExistingScan(repoUrl, provider) ==
    LET found == {id \in DOMAIN store :
                    /\ store[id].repoUrl = repoUrl
                    /\ store[id].provider = provider
                    /\ store[id].status = RUNNING}
    IN  IF found = {} THEN Null
        ELSE Some(store[CHOOSE id \in found :
                    \A o \in found : store[o].createdAt <= store[id].createdAt])

\* A save that writes the entity over every row.
SavedOverAll(scan) == [id \in DOMAIN store \cup {scan.id} |-> scan]

\* scanResultRepository.save: the row of the entity's id becomes the entity.
Saved(scan) ==
    [id \in DOMAIN store \cup {scan.id} |->
        IF id = scan.id THEN scan ELSE store[id]]

\* cacheManager.set
CacheWith(key, value) ==
    [k \in DOMAIN cache \cup {key} |-> IF k = key THEN value ELSE cache[k]]

\* A cache lookup that never finds anything.
getScanResultNever(repoUrl, provider, failed) == Null

\* A cache lookup that still answers when the cache manager throws.
getScanResultDespiteFailure(repoUrl, provider, failed) ==
    LET key == generateScanKey(repoUrl, provider)
    IN  IF key \in DOMAIN cache THEN Some(cache[key]) ELSE Null

\* CacheService.getScanResult: the cached value, null on a miss and null
\* when the cache manager throws (failed).
getScanResult(repoUrl, provider, failed) ==
    LET key == generateScanKey(repoUrl, provider)
    IN  IF ~failed /\ key \in DOMAIN cache THEN Some(cache[key]) ELSE Null

\* A performScan that is awaited: it returns with the result on the entity.
performScanAwaited(scanResult) ==
    [scanResult EXCEPT !.status = COMPLETED, !.result = Some(MockReport)]

\* performScan up to its first await: the entity handed over by
\* scanRepository is set to Running before the first save is issued.
performScanStart(scanResult) == [scanResult EXCEPT !.status = RUNNING]

\* A catch block that records no message.
CatchNoMessage(job, message) ==
    [job EXCEPT !.scan.status = FAILED, !.pc = "saveFailed"]

\* A catch block that goes on to cache the failed job.
CatchThenCache(job, message) ==
    [job EXCEPT !.scan.status = FAILED,
                !.scan.errorMessage = Some(message),
                !.pc = "cacheSet"]

\* performScan's catch block: the entity becomes Failed with the message.
Catch(job, message) ==
    [job EXCEPT !.scan.status = FAILED,
                !.scan.errorMessage = Some(message),
                !.pc = "saveFailed"]

\* A filter step that leaves the report's summary as the scanner counted it.
CompletedStaleSummary(scan, report, verifiedOnly) ==
    LET filteredResult ==
            IF verifiedOnly
            THEN [report EXCEPT
                    !.vulnerabilities = VerifiedOf(report.vulnerabilities)]
            ELSE report
    IN  updateSummary([scan EXCEPT !.status = COMPLETED,
                                   !.result = Some(filteredResult)])

\* performScan between the scanner's return and the save of the result:
\* the verifiedOnly filter, the summary recount, status, result, counts.
Completed(scan, report, verifiedOnly) ==
    LET filteredResult ==
            IF verifiedOnly
            THEN LET vulns == VerifiedOf(report.vulnerabilities)
                 IN  [report EXCEPT
                        !.vulnerabilities = vulns,
                        !.summary.totalFindings = Len(vulns),
                        !.summary.verifiedFindings = Len(vulns)]
            ELSE report
    IN  updateSummary([scan EXCEPT !.status = COMPLETED,
                                   !.result = Some(filteredResult)])

----------------------------------------------------------------------------
\* Responses of scanRepository.
NoResponse == [kind |-> "none", body |-> Null]
Ok(body) == [kind |-> "ok", body |-> Some(body)]
BadRequest == [kind |-> "BadRequestException", body |-> Null]
InternalError == [kind |-> "error", body |-> Null]

\* Jobs of the repository and provider persisted as Pending or Running.
InFlight(repoUrl, provider) ==
    {id \in DOMAIN store :
        /\ store[id].repoUrl = repoUrl
        /\ store[id].provider = provider
        /\ store[id].status \in {PENDING, RUNNING}}

\* A scanRepository call: its arguments, its position, the collaborators it
\* has used, its response, the job it created, and what it met on arrival
\* (the in-flight jobs of its repository, whether the cache had its key).
Call(repoUrl, provider, forceRescan, verifiedOnly, pc, ops, resp) ==
    [repoUrl |-> repoUrl, provider |-> provider, forceRescan |-> forceRescan,
     verifiedOnly |-> verifiedOnly, pc |-> pc, ops |-> ops, resp |-> resp,
     created |-> Null,
     inFlightOnArrival |-> InFlight(repoUrl, provider),
     cachedOnArrival |-> generateScanKey(repoUrl, provider) \in DOMAIN cache]

NoCall ==
    [repoUrl |-> "", provider |-> GITHUB, forceRescan |-> FALSE,
     verifiedOnly |-> FALSE, pc |-> "none", ops |-> {}, resp |-> NoResponse,
     created |-> Null, inFlightOnArrival |-> {}, cachedOnArrival |-> FALSE]

\* Responses of deleteScan and getScanById.
Done == [kind |-> "ok", body |-> Null]
NotFound == [kind |-> "NotFoundException", body |-> Null]

\* A deleteScan or getScanById call that has returned: the operation, its
\* argument, the collaborators it has used in order, its response, and
\* whether its cache call threw.
Reply(op, id, ops, resp, cacheFailed) ==
    [op |-> op, id |-> id, ops |-> ops, resp |-> resp,
     cacheFailed |-> cacheFailed]

NoReply == Reply("none", 0, << >>, NoResponse, FALSE)

NoProbe == [op |-> "none"]

\* The service after construction: an empty table, an empty cache, no call.
Idle ==
    /\ store = << >>
    /\ cache = << >>
    /\ reqs = << >>
    /\ calls = 0
    /\ returned = NoCall
    /\ jobs = << >>
    /\ nextId = 1
    /\ faults = 0
    /\ dels = << >>
    /\ ndel = 0
    /\ reply = NoReply

Init == Idle /\ probe = NoProbe

\* A step of scanRepository or performScan: no deleteScan or getScanById
\* call moves or returns in it.
ScanStep == reply' = NoReply /\ UNCHANGED <<dels, ndel, probe>>

CanFail == faults < MaxFaults

\* The calls still running after call r has returned.
Without(r) == [q \in DOMAIN reqs \ {r} |-> reqs[q]]

----------------------------------------------------------------------------
\* scanRepository from the call to its first await: the URL check, then the
\* cache lookup unless forceRescan.
scanRepository(repoUrl, provider, forceRescan, verifiedOnly) ==
    /\ calls < MaxRequests
    /\ calls' = calls + 1
    /\ ScanStep
    /\ UNCHANGED <<store, cache, jobs, nextId>>
    /\ IF ~validateRepositoryUrl(repoUrl)
       THEN /\ returned' = Call(repoUrl, provider, forceRescan, verifiedOnly,
                            "done", {}, BadRequest)
            /\ UNCHANGED <<reqs, faults>>
       ELSE IF forceRescan
       THEN /\ reqs' = (calls + 1) :> Call(repoUrl, provider, forceRescan,
                            verifiedOnly, "find", {}, NoResponse) @@ reqs
            /\ returned' = NoCall
            /\ UNCHANGED faults
       ELSE \E failed \in BOOLEAN :
            LET cachedResult == getScanResult(repoUrl, provider, failed)
            IN  /\ failed => CanFail
                /\ faults' = IF failed THEN faults + 1 ELSE faults
                /\ IF cachedResult # Null
                   THEN /\ returned' = Call(repoUrl, provider, forceRescan,
                                verifiedOnly, "done", {"cache.get"},
                                Ok([cachedResult[1] EXCEPT !.fromCache = TRUE]))
                        /\ UNCHANGED reqs
                   ELSE /\ reqs' = (calls + 1) :> Call(repoUrl, provider,
                                forceRescan, verifiedOnly, "find",
                                {"cache.get"}, NoResponse) @@ reqs
                        /\ returned' = NoCall

\* scanRepository, the in-flight check: await findExistingScan.
CheckExisting(r) ==
    /\ reqs[r].pc = "find"
    /\ LET existingScan == findExistingScan(reqs[r].repoUrl, reqs[r].provider)
       IN  IF existingScan # Null /\ isRunning(existingScan[1])
           THEN /\ returned' = [reqs[r] EXCEPT
                              !.pc = "done",
                              !.ops = @ \cup {"store.findOne"},
                              !.resp = Ok(formatScanResponse(existingScan[1], FALSE))]
                /\ reqs' = Without(r)
           ELSE /\ reqs' = [reqs EXCEPT ![r].pc = "create",
                                        ![r].ops = @ \cup {"store.findOne"}]
                /\ returned' = NoCall
    /\ ScanStep
    /\ UNCHANGED <<store, cache, calls, jobs, nextId, faults>>

\* scanRepository, the creation: create, await save, performScan launched
\* (it runs to its first await), the response formatted from the entity.
CreateScan(r) ==
    /\ reqs[r].pc = "create"
    /\ reqs' = Without(r)
    /\ \/ LET scanResult == NewScanResult(nextId, reqs[r].repoUrl,
                                          reqs[r].provider, nextId)
              started == performScanStart(scanResult)
          IN  /\ store' = Saved(scanResult)
              /\ jobs' = nextId :> [pc |-> "saveRunning", scan |-> started,
                                    verifiedOnly |-> reqs[r].verifiedOnly,
                                    forced |-> reqs[r].forceRescan,
                                    scanFailed |-> FALSE, writeFailed |-> FALSE,
                                    cacheFailed |-> FALSE,
                                    cacheWrites |-> 0] @@ jobs
              /\ returned' = [reqs[r] EXCEPT
                            !.pc = "done",
                            !.ops = @ \cup {"store.save"},
                            !.created = Some(nextId),
                            !.resp = Ok(formatScanResponse(started, FALSE))]
              /\ nextId' = nextId + 1
              /\ UNCHANGED <<cache, faults>>
       \/ /\ CanFail
          /\ faults' = faults + 1
          /\ returned' = [reqs[r] EXCEPT
                        !.pc = "done",
                        !.ops = @ \cup {"store.save"},
                        !.resp = InternalError]
          /\ UNCHANGED <<store, cache, jobs, nextId>>
    /\ ScanStep
    /\ UNCHANGED calls

----------------------------------------------------------------------------
\* performScan: await save of the Running entity.
SaveRunning(id) ==
    /\ jobs[id].pc = "saveRunning"
    /\ \/ /\ store' = Saved(jobs[id].scan)
          /\ jobs' = [jobs EXCEPT ![id].pc = "scan"]
          /\ UNCHANGED faults
       \/ /\ CanFail
          /\ faults' = faults + 1
          /\ jobs' = [jobs EXCEPT ![id] =
                        [Catch(@, SaveErrorMessage) EXCEPT !.writeFailed = TRUE]]
          /\ UNCHANGED store
    /\ returned' = NoCall
    /\ ScanStep
    /\ UNCHANGED <<cache, reqs, calls, nextId>>

\* performScan: await truffleHogService.scanRepository, then the code up
\* to the next save (getScannerInfo, awaited in between, catches its own
\* errors and touches neither the store nor the cache).
RunScanner(id) ==
    /\ jobs[id].pc = "scan"
    /\ \/ \E report \in Reports :
            jobs' = [jobs EXCEPT ![id] =
                        [@ EXCEPT !.scan = Completed(@, report, jobs[id].verifiedOnly),
                                  !.pc = "saveCompleted"]]
       \/ jobs' = [jobs EXCEPT ![id] =
                        [Catch(@, ScanErrorMessage) EXCEPT !.scanFailed = TRUE]]
    /\ returned' = NoCall
    /\ ScanStep
    /\ UNCHANGED <<store, cache, reqs, calls, nextId, faults>>

\* A pipeline that goes on to the cache without saving the Completed entity.
SaveCompletedNotPersisted(id) ==
    /\ jobs[id].pc = "saveCompleted"
    /\ jobs' = [jobs EXCEPT ![id].pc = "cacheSet"]
    /\ returned' = NoCall
    /\ ScanStep
    /\ UNCHANGED <<store, cache, reqs, calls, nextId, faults>>

\* performScan: await save of the Completed entity.
SaveCompleted(id) ==
    /\ jobs[id].pc = "saveCompleted"
    /\ \/ /\ store' = Saved(jobs[id].scan)
          /\ jobs' = [jobs EXCEPT ![id].pc = "cacheSet"]
          /\ UNCHANGED faults
       \/ /\ CanFail
          /\ faults' = faults + 1
          /\ jobs' = [jobs EXCEPT ![id] =
                        [Catch(@, SaveErrorMessage) EXCEPT !.writeFailed = TRUE]]
          /\ UNCHANGED store
    /\ returned' = NoCall
    /\ ScanStep
    /\ UNCHANGED <<cache, reqs, calls, nextId>>

\* performScan: await cacheService.setScanResult, which rethrows.
CacheResult(id) ==
    /\ jobs[id].pc = "cacheSet"
    /\ \/ /\ cache' = CacheWith(
                        generateScanKey(jobs[id].scan.repoUrl, jobs[id].scan.provider),
                        formatScanResponse(jobs[id].scan, FALSE))
          /\ jobs' = [jobs EXCEPT ![id].pc = "done", ![id].cacheWrites = @ + 1]
          /\ UNCHANGED faults
       \/ /\ CanFail
          /\ faults' = faults + 1
          /\ jobs' = [jobs EXCEPT ![id] =
                        [Catch(@, CacheErrorMessage) EXCEPT !.cacheFailed = TRUE]]
          /\ UNCHANGED cache
    /\ returned' = NoCall
    /\ ScanStep
    /\ UNCHANGED <<store, reqs, calls, nextId>>

\* A catch block whose failed save is reported to a caller.
SaveFailedRethrown(id) ==
    /\ jobs[id].pc = "saveFailed"
    /\ \/ /\ store' = Saved(jobs[id].scan)
          /\ jobs' = [jobs EXCEPT ![id].pc = "done"]
          /\ returned' = NoCall
          /\ UNCHANGED faults
       \/ /\ CanFail
          /\ faults' = faults + 1
          /\ jobs' = [jobs EXCEPT ![id].pc = "done", ![id].writeFailed = TRUE]
          /\ returned' = [NoCall EXCEPT !.resp = InternalError]
          /\ UNCHANGED store
    /\ ScanStep
    /\ UNCHANGED <<cache, reqs, calls, nextId>>

\* A catch block that does not save the Failed entity.
SaveFailedNotPersisted(id) ==
    /\ jobs[id].pc = "saveFailed"
    /\ jobs' = [jobs EXCEPT ![id].pc = "done"]
    /\ returned' = NoCall
    /\ ScanStep
    /\ UNCHANGED <<store, cache, reqs, calls, nextId, faults>>

\* performScan's catch block: await save of the Failed entity; when this
\* save fails the rejection goes to the logger of scanRepository's .catch.
SaveFailed(id) ==
    /\ jobs[id].pc = "saveFailed"
    /\ \/ /\ store' = Saved(jobs[id].scan)
          /\ jobs' = [jobs EXCEPT ![id].pc = "done"]
          /\ UNCHANGED faults
       \/ /\ CanFail
          /\ faults' = faults + 1
          /\ jobs' = [jobs EXCEPT ![id].pc = "done", ![id].writeFailed = TRUE]
          /\ UNCHANGED store
    /\ returned' = NoCall
    /\ ScanStep
    /\ UNCHANGED <<cache, reqs, calls, nextId>>

----------------------------------------------------------------------------
\* Number of deleteScan calls in one behaviour.
MaxDeletes == 1

\* Ids a caller can ask for: 0 was never handed out, the others were.
Ids == 0..(nextId - 1)

\* scanResultRepository.remove: the row of the id is gone, if it was there.
Removed(id) == [j \in DOMAIN store \ {id} |-> store[j]]

\* A cache removal that removes nothing.
CacheWithoutNothing(key) == cache

\* cacheManager.del
CacheWithout(key) == [k \in DOMAIN cache \ {key} |-> cache[k]]

\* A step of deleteScan or getScanById: no scanRepository call moves or
\* returns in it, no pipeline moves.
QueryStep ==
    /\ returned' = NoCall
    /\ UNCHANGED <<reqs, calls, jobs, nextId, probe>>

\* The deleteScan calls still running after call d has returned.
WithoutDel(d) == [e \in DOMAIN dels \ {d} |-> dels[e]]

\* A read by id that prefers the cached snapshot of the job's repository.
getScanByIdCached(id) ==
    IF id \in DOMAIN store
    THEN LET key == generateScanKey(store[id].repoUrl, store[id].provider)
         IN  IF key \in DOMAIN cache THEN Ok(cache[key])
             ELSE Ok(formatScanResponse(store[id], FALSE))
    ELSE NotFound

\* ScanService.getScanById, the response
getScanById(id) ==
    IF id \in DOMAIN store
    THEN Ok(formatScanResponse(store[id], FALSE))
    ELSE NotFound

\* ScanService.getScanById: await findOne, then the response.
GetScanById(id) ==
    /\ reply' = Reply("getScanById", id, <<"store.findOne">>,
                      getScanById(id), FALSE)
    /\ QueryStep
    /\ UNCHANGED <<store, cache, faults, dels, ndel>>

\* A delete that reports success for an id it did not find.
deleteScanSilent(id) ==
    /\ ndel < MaxDeletes
    /\ ndel' = ndel + 1
    /\ IF id \in DOMAIN store
       THEN /\ dels' = (ndel + 1) :> [id |-> id, scanResult |-> store[id],
                                      pc |-> "cacheDel",
                                      ops |-> <<"store.findOne">>] @@ dels
            /\ reply' = NoReply
       ELSE /\ reply' = Reply("deleteScan", id, <<"store.findOne">>,
                            Done, FALSE)
            /\ UNCHANGED dels
    /\ QueryStep
    /\ UNCHANGED <<store, cache, faults>>

\* deleteScan from the call to its first await: findOne by id.
deleteScan(id) ==
    /\ ndel < MaxDeletes
    /\ ndel' = ndel + 1
    /\ IF id \in DOMAIN store
       THEN /\ dels' = (ndel + 1) :> [id |-> id, scanResult |-> store[id],
                                      pc |-> "cacheDel",
                                      ops |-> <<"store.findOne">>] @@ dels
            /\ reply' = NoReply
       ELSE /\ reply' = Reply("deleteScan", id, <<"store.findOne">>,
                            NotFound, FALSE)
            /\ UNCHANGED dels
    /\ QueryStep
    /\ UNCHANGED <<store, cache, faults>>

\* deleteScan: await cacheService.deleteScanResult, which rethrows.
DeleteCacheEntry(d) ==
    /\ dels[d].pc = "cacheDel"
    /\ \/ /\ cache' = CacheWithout(generateScanKey(dels[d].scanResult.repoUrl,
                                                   dels[d].scanResult.provider))
          /\ dels' = [dels EXCEPT ![d].pc = "remove",
                                  ![d].ops = Append(@, "cache.del")]
          /\ reply' = NoReply
          /\ UNCHANGED faults
       \/ /\ CanFail
          /\ faults' = faults + 1
          /\ dels' = WithoutDel(d)
          /\ reply' = Reply("deleteScan", dels[d].id,
                            Append(dels[d].ops, "cache.del"),
                            InternalError, TRUE)
          /\ UNCHANGED cache
    /\ QueryStep
    /\ UNCHANGED <<store, ndel>>

\* deleteScan: await scanResultRepository.remove, then the return.
RemoveRecord(d) ==
    /\ dels[d].pc = "remove"
    /\ dels' = WithoutDel(d)
    /\ \/ /\ store' = Removed(dels[d].id)
          /\ reply' = Reply("deleteScan", dels[d].id,
                            Append(dels[d].ops, "store.remove"), Done, FALSE)
          /\ UNCHANGED faults
       \/ /\ CanFail
          /\ faults' = faults + 1
          /\ reply' = Reply("deleteScan", dels[d].id,
                            Append(dels[d].ops, "store.remove"),
                            InternalError, FALSE)
          /\ UNCHANGED store
    /\ QueryStep
    /\ UNCHANGED <<cache, ndel>>

----------------------------------------------------------------------------
Next ==
    \/ \E q \in ScanRequests : scanRepository(q[1], q[2], q[3], q[4])
    \/ \E r \in DOMAIN reqs : CheckExisting(r)
    \/ \E r \in DOMAIN reqs : CreateScan(r)
    \/ \E id \in DOMAIN jobs : SaveRunning(id)
    \/ \E id \in DOMAIN jobs : RunScanner(id)
    \/ \E id \in DOMAIN jobs : SaveCompleted(id)
    \/ \E id \in DOMAIN jobs : CacheResult(id)
    \/ \E id \in DOMAIN jobs : SaveFailed(id)

Spec == Init /\ [][Next]_vars

\* The scanRepository calls made next to deleteScan and getScanById: two
\* repositories that share a cache key, each scanned once.
DeleteScanRequests ==
    { <<UrlA, GITHUB, FALSE, FALSE>>, <<UrlB, GITHUB, FALSE, FALSE>> }

\* No scanRepository call for the repository is running and none has
\* created a job.
NotSubmitted(repoUrl) ==
    /\ \A r \in DOMAIN reqs : reqs[r].repoUrl # repoUrl
    /\ \A id \in DOMAIN jobs : jobs[id].scan.repoUrl # repoUrl

\* Submits, pipelines and deletes, interleaved.
NextDelete ==
    \/ \E q \in DeleteScanRequests :
            NotSubmitted(q[1]) /\ scanRepository(q[1], q[2], q[3], q[4])
    \/ \E r \in DOMAIN reqs : CheckExisting(r)
    \/ \E r \in DOMAIN reqs : CreateScan(r)
    \/ \E id \in DOMAIN jobs : SaveRunning(id)
    \/ \E id \in DOMAIN jobs : RunScanner(id)
    \/ \E id \in DOMAIN jobs : SaveCompleted(id)
    \/ \E id \in DOMAIN jobs : CacheResult(id)
    \/ \E id \in DOMAIN jobs : SaveFailed(id)
    \/ \E id \in Ids : deleteScan(id)
    \/ \E d \in DOMAIN dels : DeleteCacheEntry(d)
    \/ \E d \in DOMAIN dels : RemoveRecord(d)

SpecDelete == Init /\ [][NextDelete]_vars

\* Submits, pipelines, deletes and reads by id, interleaved.
NextRead ==
    \/ NextDelete
    \/ \E id \in Ids : GetScanById(id)

SpecRead == Init /\ [][NextRead]_vars

----------------------------------------------------------------------------
\* The URLs of the model that are absolute HTTP/HTTPS URLs.
ValidTargets == {UrlA, UrlB, UrlHttp}

InFlightStatus == {PENDING, RUNNING}
TerminalStatus == {COMPLETED, FAILED}

\* The call that arrived in this step: still running, or already returned.
Arrived == IF (calls + 1) \in DOMAIN reqs' THEN reqs'[calls + 1] ELSE returned'

\* C1: when every job was created by a submit with forceRescan=false, the
\* store never holds two jobs of one (target, provider) that are both
\* Pending or Running.
C1_DedupInvariant ==
    (\A id \in DOMAIN jobs : ~jobs[id].forced) =>
        \A i, j \in DOMAIN store :
            ( /\ store[i].repoUrl = store[j].repoUrl
              /\ store[i].provider = store[j].provider
              /\ store[i].status \in InFlightStatus
              /\ store[j].status \in InFlightStatus ) => i = j

\* C2: a submit with forceRescan=false and no cache entry that arrives while
\* a job of its (target, provider) is persisted as Pending or Running, and
\* returns while that job is still in flight, creates no job and returns
\* that job's id with status Pending or Running and fromCache=false.
C2_SequentialDoubleSubmit ==
    \A j \in returned.inFlightOnArrival :
        ( /\ returned.pc = "done"
          /\ returned.resp.kind = "ok"
          /\ returned.repoUrl \in ValidTargets
          /\ ~returned.forceRescan
          /\ ~returned.cachedOnArrival
          /\ j \in DOMAIN store
          /\ store[j].status \in InFlightStatus )
        => /\ returned.created = Null
           /\ returned.resp.body[1].scanId = j
           /\ returned.resp.body[1].status \in InFlightStatus
           /\ returned.resp.body[1].fromCache = FALSE

\* C3: the snapshot returned by a submit that created a job has status
\* Pending, the id of the new job and fromCache=false.
C3_NewJobSnapshotPending ==
    (returned.pc = "done" /\ ~returned.forceRescan /\ returned.created # Null)
    => /\ returned.resp.kind = "ok"
       /\ returned.resp.body[1].status = PENDING
       /\ returned.resp.body[1].scanId = returned.created[1]
       /\ returned.resp.body[1].fromCache = FALSE

\* C4: a submit with a valid target and forceRescan=false that finds its
\* key in the cache returns the cached snapshot with fromCache=true in that
\* step, having used the cache only, and changes neither the store, the
\* cache, the pipelines nor the running calls.
C4_CacheFastPath ==
    [][ ( /\ calls' = calls + 1
          /\ faults' = faults
          /\ Arrived.repoUrl \in ValidTargets
          /\ ~Arrived.forceRescan
          /\ generateScanKey(Arrived.repoUrl, Arrived.provider) \in DOMAIN cache )
        => /\ returned'.pc = "done"
           /\ returned'.resp =
                Ok([cache[generateScanKey(returned'.repoUrl, returned'.provider)]
                        EXCEPT !.fromCache = TRUE])
           /\ returned'.created = Null
           /\ returned'.ops = {"cache.get"}
           /\ UNCHANGED <<store, cache, jobs, reqs, nextId>> ]_vars

\* A call was answered from the cache.
C4_Witness ==
    /\ returned.pc = "done"
    /\ returned.resp.kind = "ok"
    /\ returned.resp.body[1].fromCache = TRUE

\* C5: a submit whose target is not an absolute HTTP/HTTPS URL returns a
\* validation error in that step, having used neither the cache nor the
\* store, and changes nothing.
C5_InvalidUrlRejected ==
    [][ (calls' = calls + 1 /\ Arrived.repoUrl \notin ValidTargets)
        => /\ returned'.pc = "done"
           /\ returned'.resp = BadRequest
           /\ returned'.created = Null
           /\ returned'.ops = {}
           /\ UNCHANGED <<store, cache, jobs, reqs, nextId, faults>> ]_vars

\* A call was rejected after jobs had been created and cached.
C5_Witness ==
    /\ returned.resp = BadRequest
    /\ returned.repoUrl \notin ValidTargets
    /\ DOMAIN store # {}

\* C6 as stated: a submit with a valid target and forceRescan=true that
\* returns a snapshot has created a fresh job and returns its id.
C6_ForceAlwaysCreates ==
    ( /\ returned.pc = "done"
      /\ returned.resp.kind = "ok"
      /\ returned.forceRescan
      /\ returned.repoUrl \in ValidTargets )
    => /\ returned.created # Null
       /\ returned.resp.body[1].scanId = returned.created[1]
       /\ returned.created[1] \notin returned.inFlightOnArrival

\* C6 as amended: a submit with forceRescan=true bypasses the cache but not
\* the in-flight check: it never uses the cache, and the snapshot it returns
\* is that of a fresh job it created, or, with no job created, the current
\* snapshot of a persisted in-flight job of its (target, provider).
C6_ForceBypassesCacheOnly ==
    /\ \A r \in DOMAIN reqs :
            reqs[r].forceRescan => "cache.get" \notin reqs[r].ops
    /\ ( /\ returned.pc = "done"
         /\ returned.resp.kind = "ok"
         /\ returned.forceRescan )
       => /\ "cache.get" \notin returned.ops
          /\ returned.resp.body[1].fromCache = FALSE
          /\ \/ /\ returned.created # Null
                /\ returned.resp.body[1].scanId = returned.created[1]
                /\ returned.created[1] = nextId - 1
                /\ returned.created[1] \notin returned.inFlightOnArrival
                /\ returned.created[1] \in DOMAIN store
             \/ /\ returned.created = Null
                /\ returned.resp.body[1].scanId \in DOMAIN store
                /\ LET existing == store[returned.resp.body[1].scanId]
                   IN  /\ existing.status \in InFlightStatus
                       /\ existing.repoUrl = returned.repoUrl
                       /\ existing.provider = returned.provider
                       /\ returned.resp.body[1] = formatScanResponse(existing, FALSE)

\* A forced call was answered with a job that was already running.
C6_Witness ==
    /\ returned.pc = "done"
    /\ returned.resp.kind = "ok"
    /\ returned.forceRescan
    /\ returned.created = Null

\* C7: a persisted job whose status is Completed or Failed keeps that
\* status in every later step.
C7_TerminalIsFinal ==
    [][ \A id \in DOMAIN store :
            store[id].status \in TerminalStatus
            => id \in DOMAIN store' /\ store'[id].status = store[id].status ]_vars

\* C8: a persisted job has a result exactly when its status is Completed.
C8_ResultIffCompleted ==
    \A id \in DOMAIN store :
        (store[id].result # Null) <=> (store[id].status = COMPLETED)

\* C9: a persisted job has an errorMessage exactly when its status is Failed.
C9_ErrorMessageIffFailed ==
    \A id \in DOMAIN store :
        (store[id].errorMessage # Null) <=> (store[id].status = FAILED)

\* A job is persisted as Failed with its message.
C9_Witness ==
    \E id \in DOMAIN store :
        store[id].status = FAILED /\ store[id].errorMessage # Null

\* C10: a pipeline whose scanner invocation failed never writes the cache
\* and goes straight to saving the failure; once it has finished with its
\* store writes successful the job is persisted as Failed with the scanner
\* error's message; the only error a caller ever gets is the failure of its
\* own insert.
C10_ScannerFailure ==
    /\ \A id \in DOMAIN jobs :
        jobs[id].scanFailed =>
            /\ jobs[id].cacheWrites = 0
            /\ jobs[id].pc \in {"saveFailed", "done"}
            /\ (jobs[id].pc = "done" /\ ~jobs[id].writeFailed)
                => /\ id \in DOMAIN store
                   /\ store[id].status = FAILED
                   /\ store[id].errorMessage = Some(ScanErrorMessage)
    /\ returned.resp.kind = "error" =>
            returned.created = Null /\ "store.save" \in returned.ops

\* A pipeline whose scanner failed has finished and its job is persisted
\* as Failed, while the cache holds an entry for the job's key.
C10_Witness ==
    \E id \in DOMAIN jobs :
        /\ jobs[id].scanFailed
        /\ jobs[id].pc = "done"
        /\ ~jobs[id].writeFailed
        /\ store[id].status = FAILED
        /\ generateScanKey(store[id].repoUrl, store[id].provider) \in DOMAIN cache

----------------------------------------------------------------------------
\* generateScanKey on the (repoUrl, provider) pairs of the model's calls.
ScanKeys ==
    [p \in {<<q[1], q[2]>> : q \in ScanRequests} |->
        generateScanKey(p[1], p[2])]

\* C11: every cache entry is the snapshot of the Completed job whose
\* pipeline wrote it, stored under the key of that job's (target, provider),
\* and that job is persisted as Completed; a pipeline about to write the
\* cache has its Completed state persisted, and a pipeline that has written
\* the cache wrote once, after a scan that succeeded, and has finished.
C11_CachePopulation ==
    /\ \A k \in DOMAIN cache :
        LET c == cache[k]
        IN  /\ c.status = COMPLETED
            /\ c.result # Null
            /\ c.errorMessage = Null
            /\ c.fromCache = FALSE
            /\ k = ScanKeys[<<c.repoUrl, c.provider>>]
            /\ c.scanId \in DOMAIN jobs
            /\ jobs[c.scanId].cacheWrites = 1
            /\ c = formatScanResponse(jobs[c.scanId].scan, FALSE)
            /\ c.scanId \in DOMAIN store
            /\ store[c.scanId] = jobs[c.scanId].scan
    /\ \A id \in DOMAIN jobs :
        /\ jobs[id].pc = "cacheSet" =>
                /\ id \in DOMAIN store
                /\ store[id] = jobs[id].scan
                /\ store[id].status = COMPLETED
        /\ jobs[id].cacheWrites > 0 =>
                /\ jobs[id].cacheWrites = 1
                /\ jobs[id].pc = "done"
                /\ ~jobs[id].scanFailed
                /\ jobs[id].scan.status = COMPLETED

\* Two pipelines of the same (target, provider) have both written the cache.
C11_Witness ==
    \E i, j \in DOMAIN jobs :
        /\ i # j
        /\ jobs[i].cacheWrites = 1
        /\ jobs[j].cacheWrites = 1
        /\ jobs[i].scan.repoUrl = jobs[j].scan.repoUrl
        /\ jobs[i].scan.provider = jobs[j].scan.provider

\* C12: for every persisted job whose status is Completed,
\* vulnerabilityCount is the number of findings of its stored result and
\* verifiedVulnerabilityCount the number of those that are verified.
C12_CountsMatchResult ==
    \A id \in DOMAIN store :
        store[id].status = COMPLETED =>
            /\ store[id].result # Null
            /\ LET vulns == store[id].result[1].vulnerabilities
               IN  /\ store[id].vulnerabilityCount = Len(vulns)
                   /\ store[id].verifiedVulnerabilityCount =
                        Cardinality({i \in 1..Len(vulns) : vulns[i].Verified})

\* A job is persisted as Completed with two findings, one of them verified,
\* and another with the verified finding only.
C12_Witness ==
    \E i, j \in DOMAIN store :
        /\ store[i].status = COMPLETED
        /\ store[i].vulnerabilityCount = 2
        /\ store[i].verifiedVulnerabilityCount = 1
        /\ store[j].status = COMPLETED
        /\ store[j].vulnerabilityCount = 1
        /\ store[j].verifiedVulnerabilityCount = 1

----------------------------------------------------------------------------
\* The result step of performScan on the reports a scanner can return.

\* Number of findings in a report.
MaxFindings == 3

\* The sequences over S of length at most n.
SeqsUpTo(S, n) == UNION {[1..k -> S] : k \in 0..n}

Findings ==
    { Finding("AWS", FALSE), Finding("AWS", TRUE),
      Finding("GitHub", FALSE), Finding("GitHub", TRUE) }

\* Array.from(new Set(...)): the elements of s in first-occurrence order.
RECURSIVE Distinct(_)
Distinct(s) ==
    IF s = << >> THEN << >>
    ELSE LET r == Distinct(SubSeq(s, 1, Len(s) - 1))
             x == s[Len(s)]
         IN  IF \E i \in 1..Len(r) : r[i] = x THEN r ELSE Append(r, x)

\* TruffleHogService.parseScanResults: the report built from the findings.
parseScanResults(vulnerabilities) ==
    [vulnerabilities |-> vulnerabilities,
     summary |->
        [totalFindings |-> Len(vulnerabilities),
         verifiedFindings |-> Len(VerifiedOf(vulnerabilities)),
         detectorTypes |->
            Distinct([i \in 1..Len(vulnerabilities) |->
                        vulnerabilities[i].DetectorType])]]

ScannerReports ==
    {parseScanResults(v) : v \in SeqsUpTo(Findings, MaxFindings)}

\* The entity performScan holds when the scanner returns.
RunningScan == performScanStart(NewScanResult(1, UrlA, GITHUB, 1))

InitSummary ==
    /\ Idle
    /\ probe \in {[op |-> "performScan", report |-> r, verifiedOnly |-> v,
                   scan |-> RunningScan] :
                        r \in ScannerReports, v \in BOOLEAN}

\* performScan from the scanner's return to the save: filter, recount.
FilterAndSummarise ==
    /\ probe.op = "performScan"
    /\ probe.scan.status = RUNNING
    /\ probe' = [probe EXCEPT
                    !.scan = Completed(@, probe.report, probe.verifiedOnly)]
    /\ UNCHANGED <<store, cache, reqs, calls, returned, jobs, nextId, faults,
                   dels, ndel, reply>>

NextSummary == FilterAndSummarise

SpecSummary == InitSummary /\ [][NextSummary]_vars

\* Index in vulns of its k-th verified finding.
KthVerified(vulns, k) ==
    CHOOSE i \in 1..Len(vulns) :
        /\ vulns[i].Verified
        /\ Cardinality({j \in 1..i : vulns[j].Verified}) = k

\* C13: with verifiedOnly the result of a Completed job holds exactly the
\* verified findings of the scanner's report in the report's order, and
\* summary.totalFindings, summary.verifiedFindings, vulnerabilityCount and
\* verifiedVulnerabilityCount all equal their number; without verifiedOnly
\* the report is stored as the scanner returned it.
C13_VerifiedOnlyFilter ==
    (probe.op = "performScan" /\ probe.scan.status = COMPLETED) =>
        LET given == probe.report.vulnerabilities
            kept == {i \in 1..Len(given) : given[i].Verified}
            n == Cardinality(kept)
            stored == probe.scan.result[1]
        IN  IF probe.verifiedOnly
            THEN /\ Len(stored.vulnerabilities) = n
                 /\ \A k \in 1..n :
                        stored.vulnerabilities[k] = given[KthVerified(given, k)]
                 /\ stored.summary.totalFindings = n
                 /\ stored.summary.verifiedFindings = n
                 /\ probe.scan.vulnerabilityCount = n
                 /\ probe.scan.verifiedVulnerabilityCount = n
            ELSE /\ stored = probe.report
                 /\ probe.scan.vulnerabilityCount = Len(given)
                 /\ probe.scan.verifiedVulnerabilityCount = n

\* A report with two different verified findings around an unverified one
\* was filtered.
C13_Witness ==
    /\ probe.op = "performScan"
    /\ probe.scan.status = COMPLETED
    /\ probe.verifiedOnly
    /\ probe.report.vulnerabilities =
            << Finding("GitHub", TRUE), Finding("AWS", FALSE), Finding("AWS", TRUE) >>
    /\ probe.scan.result[1].vulnerabilities =
            << Finding("GitHub", TRUE), Finding("AWS", TRUE) >>

----------------------------------------------------------------------------
\* C14: a submit whose cache read fails is left exactly where a submit that
\* found no cache entry is: in that step it neither returns nor fails, it
\* is waiting for the in-flight lookup with only the cache used, and nothing
\* else has changed; and every non-forced submit that met a cache entry on
\* arrival and is past the cache went on through the in-flight lookup to a
\* job, and can return no error but the failure of its own insert.
C14_CacheReadFailureIsMiss ==
    [][ /\ (calls' = calls + 1 /\ faults' = faults + 1)
            => /\ (calls + 1) \in DOMAIN reqs'
               /\ reqs'[calls + 1] =
                    Call(Arrived.repoUrl, Arrived.provider, FALSE,
                         Arrived.verifiedOnly, "find", {"cache.get"}, NoResponse)
               /\ returned' = NoCall
               /\ UNCHANGED <<store, cache, jobs, nextId>>
        /\ ( /\ returned'.pc = "done"
             /\ ~returned'.forceRescan
             /\ returned'.cachedOnArrival
             /\ "store.findOne" \in returned'.ops )
            => /\ returned'.resp.kind \in {"ok", "error"}
               /\ returned'.resp.kind = "error" =>
                    "store.save" \in returned'.ops /\ returned'.created = Null
               /\ returned'.resp.kind = "ok" =>
                    /\ returned'.resp.body[1].fromCache = FALSE
                    /\ returned'.resp.body[1].scanId \in DOMAIN store'
                    /\ ("store.save" \in returned'.ops) =
                            (returned'.created = Some(nextId)) ]_vars

\* A submit whose cache read failed while the cache held its key created a
\* job.
C14_Witness ==
    /\ returned.pc = "done"
    /\ ~returned.forceRescan
    /\ returned.cachedOnArrival
    /\ returned.created # Null
    /\ returned.resp.kind = "ok"

----------------------------------------------------------------------------
\* C15: a deleteScan call for an existing job whose cache removal failed
\* has still removed the persisted record and returned success.
C15_DeleteSurvivesCacheFailure ==
    (reply.op = "deleteScan" /\ reply.cacheFailed) =>
        /\ reply.resp = Done
        /\ reply.id \notin DOMAIN store

----------------------------------------------------------------------------
\* C16: a job whose cache write failed after its Completed state was
\* persisted stays persisted as Completed, with its result, with the counts
\* of that result and with no errorMessage.
C16_CompletedSurvivesCacheFailure ==
    \A id \in DOMAIN jobs :
        jobs[id].cacheFailed =>
            /\ id \in DOMAIN store
            /\ store[id].status = COMPLETED
            /\ store[id].result # Null
            /\ store[id].errorMessage = Null
            /\ store[id].vulnerabilityCount =
                    Len(store[id].result[1].vulnerabilities)

----------------------------------------------------------------------------
\* The id the deleteScan call of this step was made with.
DeleteArrived ==
    IF (ndel + 1) \in DOMAIN dels' THEN dels'[ndel + 1].id ELSE reply'.id

\* C17: a deleteScan call for an id with no row in the store returns the
\* not-found error in that step, having read the store only, and leaves the
\* store, the cache and every other call as they were.
C17_DeleteUnknown ==
    [][ (ndel' = ndel + 1 /\ DeleteArrived \notin DOMAIN store)
        => /\ reply' = Reply("deleteScan", DeleteArrived, <<"store.findOne">>,
                             NotFound, FALSE)
           /\ UNCHANGED <<store, cache, jobs, reqs, dels, nextId, faults>> ]_vars

\* An unknown id was rejected while the store and the cache held jobs.
C17_Witness ==
    /\ reply.op = "deleteScan"
    /\ reply.resp = NotFound
    /\ reply.id \notin DOMAIN store
    /\ DOMAIN store # {}
    /\ DOMAIN cache # {}

\* The ids for which getScanById answers not-found.
NotFoundIds == {id \in Ids : getScanById(id) = NotFound}

\* C18: a deleteScan call for an existing job first removes the cache entry
\* under the key of that job's (target, provider), leaving the store and
\* the other cache entries alone, and then removes the job's row; when it
\* returns, getScanById of the id answers not-found, every other row is
\* what it was and the cache is not touched again. Success is returned only
\* after these two steps, in this order.
C18_DeleteExisting ==
    [][ /\ \A d \in DOMAIN dels :
            LET id == dels[d].id
                key == generateScanKey(dels[d].scanResult.repoUrl,
                                       dels[d].scanResult.provider)
            IN  /\ ( /\ dels[d].pc = "cacheDel"
                      /\ d \in DOMAIN dels'
                      /\ dels'[d] # dels[d] )
                    => /\ dels'[d].pc = "remove"
                       /\ dels'[d].id = id
                       /\ DOMAIN cache' = DOMAIN cache \ {key}
                       /\ \A k \in DOMAIN cache' : cache'[k] = cache[k]
                       /\ store' = store
                /\ ( /\ dels[d].pc = "remove"
                      /\ d \notin DOMAIN dels'
                      /\ reply'.resp = Done )
                    => /\ reply'.id = id
                       /\ id \notin DOMAIN store'
                       /\ reply'.id \in NotFoundIds'
                       /\ DOMAIN store' = DOMAIN store \ {id}
                       /\ \A j \in DOMAIN store' : store'[j] = store[j]
                       /\ cache' = cache
        /\ (reply'.op = "deleteScan" /\ reply'.resp = Done)
            => /\ reply'.ops = <<"store.findOne", "cache.del", "store.remove">>
               /\ \E d \in DOMAIN dels : dels[d].pc = "remove" ]_vars

\* The job whose pipeline had cached its result was deleted, the cache is
\* empty and another job is still in the store.
C18_Witness ==
    /\ reply.op = "deleteScan"
    /\ reply.resp = Done
    /\ reply.id \in DOMAIN jobs
    /\ jobs[reply.id].cacheWrites = 1
    /\ DOMAIN cache = {}
    /\ DOMAIN store # {}

\* C19: a getScanById call answers not-found when the store has no row of
\* the id and otherwise with the snapshot of the row as persisted,
\* fromCache=false; it has used the store only and changes neither the
\* store, the cache, the pipelines nor any other call.
C19_GetById ==
    [][ reply'.op = "getScanById"
        => /\ reply'.ops = <<"store.findOne">>
           /\ IF reply'.id \in DOMAIN store
              THEN /\ reply'.resp.kind = "ok"
                   /\ reply'.resp.body[1] =
                        formatScanResponse(store[reply'.id], FALSE)
                   /\ reply'.resp.body[1].scanId = reply'.id
                   /\ reply'.resp.body[1].fromCache = FALSE
              ELSE reply'.resp = NotFound
           /\ UNCHANGED <<store, cache, jobs, reqs, calls, dels, ndel,
                          nextId, faults>> ]_vars

\* A Completed job was read by id while the cache held an entry under its
\* key.
C19_Witness ==
    /\ reply.op = "getScanById"
    /\ reply.resp.kind = "ok"
    /\ reply.resp.body[1].status = COMPLETED
    /\ generateScanKey(reply.resp.body[1].repoUrl,
                       reply.resp.body[1].provider) \in DOMAIN cache

----------------------------------------------------------------------------
\* getScanHistory on the tables a restarted service can find.

\* Number of rows in the table.
MaxRows == 5
\* Highest page asked for.
MaxPage == 4

\* Page sizes asked for, between the @Min and the @Max of HistoryQueryDto.
Limits == {1, 2, 3, 10, 100}

\* A division that rounds down where Math.ceil rounds up.
CeilDown(n, d) == n \div d

\* Math.ceil(n / d) for n >= 0, d > 0
Ceil(n, d) == IF n % d = 0 THEN n \div d ELSE (n \div d) + 1

\* The i-th row of the table: a job as scanRepository and performScan leave
\* it, Completed, Failed, Running or Pending in turn.
HistoryRow(i) ==
    LET k == i % 4
    IN  IF k = 1
        THEN Completed(performScanStart(NewScanResult(i, UrlA, GITHUB, i)),
                       MockReport, FALSE)
        ELSE IF k = 2
        THEN Catch([scan |-> performScanStart(NewScanResult(i, UrlB, GITHUB, i)),
                    pc |-> "scan"], ScanErrorMessage).scan
        ELSE IF k = 3
        THEN performScanStart(NewScanResult(i, UrlA, GITLAB, i))
        ELSE NewScanResult(i, UrlHttp, GITHUB, i)

HistoryTable(n) == [i \in 1..n |-> HistoryRow(i)]

\* The filters asked for: repoUrl, provider, status, each optional; the last
\* repoUrl holds a character that LIKE reads as a wildcard.
HistoryFilters ==
    { <<Null, Null, Null>>, <<Some(UrlA), Null, Null>>,
      <<Null, Some(GITHUB), Null>>, <<Null, Null, Some(COMPLETED)>>,
      <<Some(UrlA), Some(GITHUB), Some(COMPLETED)>>,
      <<Some(UrlHttp), Some(GITLAB), Null>>,
      <<Some("a_b"), Null, Null>> }

HistoryQuery(f, page, limit, sortOrder) ==
    [repoUrl |-> f[1], provider |-> f[2], status |-> f[3],
     page |-> page, limit |-> limit,
     sortBy |-> "createdAt", sortOrder |-> sortOrder]

\* repoUrl LIKE '%pattern%': the pattern occurs in s, its "_" standing for
\* any one character.
Like(s, pattern) ==
    \E p \in 1..(Len(s) - Len(pattern) + 1) :
        \A k \in 1..Len(pattern) :
            Char(pattern, k) = "_" \/ Char(pattern, k) = Char(s, p + k - 1)

\* The where clause of getScanHistory: the ids of the rows it selects.
Matching(query) ==
    {id \in DOMAIN store :
        /\ query.repoUrl # Null => Like(store[id].repoUrl, query.repoUrl[1])
        /\ query.provider # Null => store[id].provider = query.provider[1]
        /\ query.status # Null => store[id].status = query.status[1]}

\* The ids of S ordered by createdAt.
RECURSIVE OrderByCreatedAt(_, _)
OrderByCreatedAt(S, sortOrder) ==
    IF S = {} THEN << >>
    ELSE LET first == CHOOSE id \in S : \A o \in S :
                        IF sortOrder = "ASC"
                        THEN store[id].createdAt <= store[o].createdAt
                        ELSE store[id].createdAt >= store[o].createdAt
         IN  <<first>> \o OrderByCreatedAt(S \ {first}, sortOrder)

\* ScanService.getScanHistory
getScanHistory(query) ==
    LET found == OrderByCreatedAt(Matching(query), query.sortOrder)
        totalItems == Len(found)
        skip == (query.page - 1) * query.limit
        results == SubSeq(found, skip + 1,
                          IF skip + query.limit < totalItems
                          THEN skip + query.limit ELSE totalItems)
        totalPages == Ceil(totalItems, query.limit)
    IN  [data |-> [i \in 1..Len(results) |->
                        formatScanResponse(store[results[i]], FALSE)],
         meta |-> [page |-> query.page, limit |-> query.limit,
                   totalItems |-> totalItems, totalPages |-> totalPages,
                   hasNext |-> query.page < totalPages,
                   hasPrevious |-> query.page > 1]]

\* The values of the page and limit parameters of a request: absent, or the
\* text of the query string.
RawNumbers ==
    { Null, Some(""), Some("0"), Some("1"), Some("2"), Some("-1"),
      Some("100"), Some("101"), Some("1.5"), Some("2.0"), Some("x") }

DecimalDigits == "0123456789"

IsDigits(s) ==
    /\ Len(s) > 0
    /\ \A i \in 1..Len(s) : \E j \in 1..10 : Char(DecimalDigits, j) = Char(s, i)

RECURSIVE DecimalValue(_)
DecimalValue(s) ==
    IF Len(s) = 0 THEN 0
    ELSE 10 * DecimalValue(SubSeq(s, 1, Len(s) - 1))
         + (CHOOSE j \in 1..10 :
                Char(DecimalDigits, j) = Char(s, Len(s))) - 1

NaN == [kind |-> "NaN"]
Fraction == [kind |-> "fraction"]
Integer(n) == [kind |-> "integer", value |-> n]

\* @Type(() => Number): Number(s) for a text that is empty, a signed decimal
\* integer, a signed decimal with a fraction part, or anything else.
ToNumber(s) ==
    LET neg == Len(s) > 0 /\ Char(s, 1) = "-"
        body == IF neg THEN SubSeq(s, 2, Len(s)) ELSE s
        dots == {i \in 1..Len(body) : Char(body, i) = "."}
        sign == IF neg THEN -1 ELSE 1
    IN  IF Len(s) = 0 THEN Integer(0)
        ELSE IF IsDigits(body) THEN Integer(sign * DecimalValue(body))
        ELSE IF Cardinality(dots) = 1
        THEN LET d == CHOOSE i \in dots : TRUE
                 whole == SubSeq(body, 1, d - 1)
                 part == SubSeq(body, d + 1, Len(body))
             IN  IF ~(IsDigits(whole) /\ IsDigits(part)) THEN NaN
                 ELSE IF DecimalValue(part) = 0
                 THEN Integer(sign * DecimalValue(whole))
                 ELSE Fraction
        ELSE NaN

\* @IsInt
IsInt(n) == n.kind = "integer"

\* HistoryQueryDto.page: @IsOptional @Type(() => Number) @IsInt @Min(1)
ValidPage(raw) ==
    raw = Null \/ (IsInt(ToNumber(raw[1])) /\ ToNumber(raw[1]).value >= 1)

\* A limit validated without its @Max.
ValidLimitNoMax(raw) ==
    raw = Null \/ (IsInt(ToNumber(raw[1])) /\ ToNumber(raw[1]).value >= 1)

\* HistoryQueryDto.limit: @IsOptional @Type(() => Number) @IsInt @Min(1)
\* @Max(100)
ValidLimit(raw) ==
    raw = Null \/ (/\ IsInt(ToNumber(raw[1]))
                   /\ ToNumber(raw[1]).value >= 1
                   /\ ToNumber(raw[1]).value <= 100)

\* The HistoryQueryDto of a valid request: page and limit converted, the
\* defaults where absent, no filter.
HistoryQueryDto(page, limit) ==
    HistoryQuery(<<Null, Null, Null>>,
                 IF page = Null THEN 1 ELSE ToNumber(page[1]).value,
                 IF limit = Null THEN 10 ELSE ToNumber(limit[1]).value,
                 "DESC")

\* The skip and take getScanHistory hands to findAndCount.
FindOptions(query) ==
    [skip |-> (query.page - 1) * query.limit, take |-> query.limit]

InitHistory ==
    /\ \E n \in 0..MaxRows : store = HistoryTable(n) /\ nextId = n + 1
    /\ cache = << >>
    /\ reqs = << >>
    /\ calls = 0
    /\ returned = NoCall
    /\ jobs = << >>
    /\ faults = 0
    /\ dels = << >>
    /\ ndel = 0
    /\ reply = NoReply
    /\ probe \in {[op |-> "getScanHistory",
                   query |-> HistoryQuery(f, page, limit, sortOrder),
                   out |-> Null] :
                        f \in HistoryFilters, page \in 1..MaxPage,
                        limit \in Limits, sortOrder \in {"ASC", "DESC"}}
                \cup
                  {[op |-> "historyRequest", page |-> page, limit |-> limit,
                    issued |-> Null, out |-> Null] :
                        page \in RawNumbers, limit \in RawNumbers}

\* ScanService.getScanHistory: await findAndCount, then the response.
GetScanHistory ==
    /\ probe.op = "getScanHistory"
    /\ probe.out = Null
    /\ probe' = [probe EXCEPT !.out = Some(getScanHistory(probe.query))]
    /\ UNCHANGED <<store, cache, reqs, calls, returned, jobs, nextId, faults,
                   dels, ndel, reply>>

\* ScanController.getScanHistory behind the global ValidationPipe: the query
\* is turned into a HistoryQueryDto and validated, a query that fails is
\* answered 400 and the service is not called.
HistoryRequest ==
    /\ probe.op = "historyRequest"
    /\ probe.out = Null
    /\ IF ValidPage(probe.page) /\ ValidLimit(probe.limit)
       THEN LET query == HistoryQueryDto(probe.page, probe.limit)
            IN  probe' = [probe EXCEPT
                            !.issued = Some(FindOptions(query)),
                            !.out = Some(Ok(getScanHistory(query)))]
       ELSE probe' = [probe EXCEPT !.out = Some(BadRequest)]
    /\ UNCHANGED <<store, cache, reqs, calls, returned, jobs, nextId, faults,
                   dels, ndel, reply>>

NextHistory == GetScanHistory \/ HistoryRequest

SpecHistory == InitHistory /\ [][NextHistory]_vars

\* C20: for every page >= 1, limit in 1..100 and number N of matching jobs
\* the metadata of getScanHistory has totalItems = N, totalPages the least
\* number of pages of limit jobs that hold N jobs, hasNext = (page <
\* totalPages) and hasPrevious = (page > 1), and repeats page and limit.
C20_PaginationMeta ==
    (probe.op = "getScanHistory" /\ probe.out # Null) =>
        LET query == probe.query
            meta == probe.out[1].meta
            N == Cardinality(Matching(query))
        IN  /\ query.page >= 1 /\ query.limit \in 1..100
            /\ meta.page = query.page
            /\ meta.limit = query.limit
            /\ meta.totalItems = N
            /\ meta.totalPages >= 0
            /\ meta.totalPages * query.limit >= N
            /\ (meta.totalPages - 1) * query.limit < N
            /\ meta.hasNext = (query.page < meta.totalPages)
            /\ meta.hasPrevious = (query.page > 1)

\* The last, partly filled page of five jobs in pages of two was asked for.
C20_Witness ==
    /\ probe.op = "getScanHistory"
    /\ probe.out # Null
    /\ probe.query.page = 3
    /\ probe.query.limit = 2
    /\ probe.out[1].meta.totalItems = 5
    /\ probe.out[1].meta.totalPages = 3
    /\ ~probe.out[1].meta.hasNext
    /\ probe.out[1].meta.hasPrevious
    /\ Len(probe.out[1].data) = 1

\* s holds sub as a substring.
Contains(s, sub) ==
    \E p \in 1..(Len(s) - Len(sub) + 1) : SubSeq(s, p, p + Len(sub) - 1) = sub

\* The rows that pass every filter of the query that is present, the repoUrl
\* filter read as a substring.
MatchingEvery(query) ==
    {id \in DOMAIN store :
        /\ query.repoUrl # Null => Contains(store[id].repoUrl, query.repoUrl[1])
        /\ query.provider # Null => store[id].provider = query.provider[1]
        /\ query.status # Null => store[id].status = query.status[1]}

\* C21: the jobs getScanHistory counts and returns are exactly those that
\* match every filter present (repoUrl as a substring, provider, status), an
\* absent filter constrains nothing, and the page returned is the slice of at
\* most limit jobs from offset (page-1)*limit of the matching jobs in the
\* sort order asked for.
C21_ConjunctiveFilter ==
    (probe.op = "getScanHistory" /\ probe.out # Null) =>
        LET query == probe.query
            data == probe.out[1].data
            M == MatchingEvery(query)
            skip == (query.page - 1) * query.limit
            \* position of a matching row in the sort order asked for
            Rank(id) == Cardinality({o \in M :
                            IF query.sortOrder = "ASC"
                            THEN store[o].createdAt < store[id].createdAt
                            ELSE store[o].createdAt > store[id].createdAt})
            Page == {id \in M : Rank(id) >= skip /\ Rank(id) < skip + query.limit}
        IN  /\ probe.out[1].meta.totalItems = Cardinality(M)
            /\ Len(data) = Cardinality(Page)
            /\ \A i \in 1..Len(data) :
                    data[i].scanId \in Page /\ Rank(data[i].scanId) = skip + i - 1

\* The number a page or limit parameter stands for, if it stands for one.
Given(raw) == raw # Null /\ ToNumber(raw[1]).kind = "integer"

\* C22: a history request with page < 1 or limit outside 1..100 is answered
\* with a validation error and no store query is issued for it; no query
\* with a negative offset, a zero limit or a limit above 100 reaches the
\* store.
C22_DegenerateBoundsRejected ==
    (probe.op = "historyRequest" /\ probe.out # Null) =>
        /\ (\/ Given(probe.page) /\ ToNumber(probe.page[1]).value < 1
            \/ Given(probe.limit) /\ ToNumber(probe.limit[1]).value < 1
            \/ Given(probe.limit) /\ ToNumber(probe.limit[1]).value > 100)
                => (probe.out[1] = BadRequest /\ probe.issued = Null)
        /\ probe.issued # Null =>
                /\ probe.issued[1].skip >= 0
                /\ probe.issued[1].take >= 1
                /\ probe.issued[1].take <= 100

\* The request of the e2e test, page=0 and limit=101, was answered 400.
C22_Witness ==
    /\ probe.op = "historyRequest"
    /\ probe.page = Some("0")
    /\ probe.limit = Some("101")
    /\ probe.out = Some(BadRequest)
    /\ probe.issued = Null

----------------------------------------------------------------------------
\* getScanStatistics.

\* The arithmetic of JavaScript numbers (IEEE 754 binary64) on the values the
\* statistics need: a positive number is its 53 significant bits, most
\* significant first, and the exponent of the last of them; its value is
\* BitsValue(bits) * 2^exp.
Precision == 53

Zero == [bits |-> << >>, exp |-> 0]

RECURSIVE Pow2(_)
Pow2(n) == IF n = 0 THEN 1 ELSE 2 * Pow2(n - 1)

RECURSIVE BitsValue(_)
BitsValue(bits) ==
    IF bits = << >> THEN 0
    ELSE 2 * BitsValue(SubSeq(bits, 1, Len(bits) - 1)) + bits[Len(bits)]

\* bits + 1, for bits that are not all ones
RECURSIVE Increment(_)
Increment(bits) ==
    LET front == SubSeq(bits, 1, Len(bits) - 1)
    IN  IF bits[Len(bits)] = 0 THEN Append(front, 1)
        ELSE Append(Increment(front), 0)

\* Round to nearest, ties to even: the number of 53 bits nearest to
\* BitsValue(bits) * 2^exp, which is followed by further non-zero bits iff
\* sticky.
RoundToNearestEven(bits, sticky, exp) ==
    LET kept == SubSeq(bits, 1, Precision)
        rest == SubSeq(bits, Precision + 1, Len(bits))
        half == Len(rest) > 0 /\ rest[1] = 1
        more == sticky \/ \E i \in 2..Len(rest) : rest[i] = 1
        up == half /\ (more \/ kept[Precision] = 1)
        e == exp + Len(rest)
    IN  IF ~up THEN [bits |-> kept, exp |-> e]
        ELSE IF \A i \in 1..Precision : kept[i] = 1
        THEN [bits |-> [i \in 1..Precision |-> IF i = 1 THEN 1 ELSE 0],
              exp |-> e + 1]
        ELSE [bits |-> Increment(kept), exp |-> e]

\* The least s with n * 2^s >= d, and the greatest u with d * 2^u <= n.
RECURSIVE ShiftUp(_, _)
ShiftUp(n, d) == IF n >= d THEN 0 ELSE 1 + ShiftUp(2 * n, d)

RECURSIVE ShiftDown(_, _)
ShiftDown(n, d) == IF 2 * d > n THEN 0 ELSE 1 + ShiftDown(n, 2 * d)

\* The first k bits of r / d after the binary point, for 0 <= r < d, and
\* what is left of r after them.
RECURSIVE DivBits(_, _, _)
DivBits(r, d, k) ==
    IF k = 0 THEN << >>
    ELSE IF 2 * r >= d THEN <<1>> \o DivBits(2 * r - d, d, k - 1)
    ELSE <<0>> \o DivBits(2 * r, d, k - 1)

RECURSIVE DivRem(_, _, _)
DivRem(r, d, k) ==
    IF k = 0 THEN r
    ELSE IF 2 * r >= d THEN DivRem(2 * r - d, d, k - 1)
    ELSE DivRem(2 * r, d, k - 1)

\* n / d for integers n >= 0 and d > 0
Divide(n, d) ==
    IF n = 0 THEN Zero
    ELSE LET s == ShiftUp(n, d)
             u == ShiftDown(n, d)
             n0 == n * Pow2(s)
             d0 == d * Pow2(u)
         IN  RoundToNearestEven(<<1>> \o DivBits(n0 - d0, d0, Precision),
                                DivRem(n0 - d0, d0, Precision) # 0,
                                u - s - Precision)

\* The bits of k, and its last w bits.
RECURSIVE ToBits(_)
ToBits(k) == IF k = 0 THEN << >> ELSE Append(ToBits(k \div 2), k % 2)

RECURSIVE LowBits(_, _)
LowBits(k, w) ==
    IF w = 0 THEN << >> ELSE Append(LowBits(k \div 2, w - 1), k % 2)

\* The bits of BitsValue(bits) * n for 53 bits and 0 < n < 2^10, worked out
\* on bits 1..21, 22..37 and 38..53.
TimesBits(bits, n) ==
    LET lo == BitsValue(SubSeq(bits, 38, 53)) * n
        mid == BitsValue(SubSeq(bits, 22, 37)) * n + lo \div 65536
        hi == BitsValue(SubSeq(bits, 1, 21)) * n + mid \div 65536
    IN  ToBits(hi) \o LowBits(mid % 65536, 16) \o LowBits(lo % 65536, 16)

\* x * n for an integer n > 0 that is a number itself
Times(x, n) ==
    IF x = Zero THEN Zero
    ELSE RoundToNearestEven(TimesBits(x.bits, n), FALSE, x.exp)

\* Math.round for x >= 0: the integer nearest to x, the greater of the two
\* when x is halfway.
MathRound(x) ==
    LET whole == Precision + x.exp
    IN  IF x = Zero THEN 0
        ELSE IF x.exp >= 0 THEN BitsValue(x.bits) * Pow2(x.exp)
        ELSE IF whole < 0 THEN 0
        ELSE BitsValue(SubSeq(x.bits, 1, whole)) + x.bits[whole + 1]

\* successRate of getScanStatistics
successRate(completedScans, totalScans) ==
    IF totalScans > 0
    THEN MathRound(Times(Divide(completedScans, totalScans), 100))
    ELSE 0

\* An average that is cut off, not rounded.
averageCutOff(totalVulnerabilities, completedScans) ==
    IF completedScans > 0 THEN totalVulnerabilities \div completedScans ELSE 0

\* averageVulnerabilitiesPerScan of getScanStatistics
averageVulnerabilitiesPerScan(totalVulnerabilities, completedScans) ==
    IF completedScans > 0
    THEN MathRound(Divide(totalVulnerabilities, completedScans))
    ELSE 0

\* Number(n).toString() of the sum the database returns, and the parseInt that
\* reads it back.
RECURSIVE ToDecimal(_)
ToDecimal(n) ==
    IF n < 10 THEN Char(DecimalDigits, n + 1)
    ELSE ToDecimal(n \div 10) \o Char(DecimalDigits, (n % 10) + 1)

parseInt(s) == DecimalValue(s)

\* count({ where: { status } })
CountStatus(status) == Cardinality({id \in DOMAIN store : store[id].status = status})

RECURSIVE SumCounts(_)
SumCounts(S) ==
    IF S = {} THEN 0
    ELSE LET id == CHOOSE i \in S : TRUE
         IN  store[id].vulnerabilityCount + SumCounts(S \ {id})

\* SELECT SUM(scan.vulnerabilityCount) WHERE status = 'completed': null when
\* no row is Completed
SumVulnerabilityCount ==
    LET S == {id \in DOMAIN store : store[id].status = COMPLETED}
    IN  IF S = {} THEN Null ELSE Some(ToDecimal(SumCounts(S)))

\* The rows of the detector query.
WithDetectors ==
    {id \in DOMAIN store : store[id].status = COMPLETED /\ store[id].result # Null}

DetectorTypesOf(id) == store[id].result[1].summary.detectorTypes

\* The query has no ORDER BY: its rows come in any order. The orders are told
\* apart by the detectorTypes they bring, not by the ids.
RECURSIVE RowOrders(_)
RowOrders(S) ==
    IF \A a \in S, b \in S : DetectorTypesOf(a) = DetectorTypesOf(b)
    THEN { [i \in 1..Cardinality(S) |-> DetectorTypesOf(CHOOSE id \in S : TRUE)] }
    ELSE LET firsts == {id \in S : \A o \in S :
                            DetectorTypesOf(o) = DetectorTypesOf(id) => o >= id}
         IN  UNION { { <<DetectorTypesOf(id)>> \o rest :
                            rest \in RowOrders(S \ {id}) } : id \in firsts }

\* detectorCounts.set(type, (detectorCounts.get(type) || 0) + 1): the Map in
\* insertion order
Bump(counts, type) ==
    IF \E i \in 1..Len(counts) : counts[i].detector = type
    THEN [i \in 1..Len(counts) |->
            IF counts[i].detector = type
            THEN [counts[i] EXCEPT !.count = @ + 1] ELSE counts[i]]
    ELSE Append(counts, [detector |-> type, count |-> 1])

RECURSIVE BumpAll(_, _)
BumpAll(counts, types) ==
    IF types = << >> THEN counts
    ELSE Bump(BumpAll(counts, SubSeq(types, 1, Len(types) - 1)),
              types[Len(types)])

\* The types of all rows, in the order the two nested forEach meet them.
RECURSIVE Flatten(_)
Flatten(detectorStats) ==
    IF detectorStats = << >> THEN << >>
    ELSE Flatten(SubSeq(detectorStats, 1, Len(detectorStats) - 1))
         \o detectorStats[Len(detectorStats)]

\* detectorStats.forEach((stat) => types.forEach(...))
DetectorCounts(detectorStats) == BumpAll(<< >>, Flatten(detectorStats))

\* A sort that leaves the entries as they were met.
Unsorted(entries) == entries

\* .sort(([, a], [, b]) => b - a): by count, greatest first; Array.prototype.sort
\* is stable
RECURSIVE SortByCount(_)
SortByCount(entries) ==
    IF entries = << >> THEN << >>
    ELSE LET r == SortByCount(SubSeq(entries, 1, Len(entries) - 1))
             x == entries[Len(entries)]
             k == Cardinality({i \in 1..Len(r) : r[i].count >= x.count})
         IN  SubSeq(r, 1, k) \o <<x>> \o SubSeq(r, k + 1, Len(r))

\* topDetectors: .sort(...).slice(0, 10)
topDetectors(detectorStats) ==
    LET sorted == SortByCount(DetectorCounts(detectorStats))
    IN  SubSeq(sorted, 1, IF Len(sorted) < 10 THEN Len(sorted) ELSE 10)

\* Detector tags of the scanner.
DetectorNames ==
    << "AWS", "GitHub", "Slack", "Stripe", "Twilio", "SendGrid", "Mailgun",
       "Azure", "GCP", "NPM", "PyPI", "Heroku" >>

\* The report of a repository without findings.
CleanReport == parseScanResults(<< >>)

\* Reports with eleven tags, with the eleventh and the twelfth, and with the
\* twelfth.
WideReport ==
    parseScanResults([i \in 1..11 |-> Finding(DetectorNames[i], FALSE)])
PairReport ==
    parseScanResults(<<Finding(DetectorNames[12], TRUE),
                       Finding(DetectorNames[11], FALSE)>>)
LateReport == parseScanResults(<<Finding(DetectorNames[12], FALSE)>>)

\* Jobs in the store when the statistics are asked for.
MaxScans == 40
\* Jobs in a store of jobs of all kinds.
MaxStatRows == 3

\* Kinds of rows: Completed with one of the reports, Failed by the scanner,
\* Failed after the result was saved, Running, Pending.
StatKinds == {"wide", "pair", "late", FAILED, "failedLate", RUNNING, PENDING}

\* The i-th row of a table, of the kind asked for.
StatRow(kind, i) ==
    LET scan == NewScanResult(i, UrlA, GITHUB, i)
        running == performScanStart(scan)
    IN  CASE kind = "clean" -> Completed(running, CleanReport, FALSE)
          [] kind = "wide" -> Completed(running, WideReport, FALSE)
          [] kind = "pair" -> Completed(running, PairReport, FALSE)
          [] kind = "late" -> Completed(running, LateReport, FALSE)
          [] kind = FAILED -> Catch([scan |-> running, pc |-> "scan"],
                                    ScanErrorMessage).scan
          [] kind = "failedLate" ->
                Catch([scan |-> Completed(running, PairReport, FALSE),
                       pc |-> "cacheSet"], CacheErrorMessage).scan
          [] kind = RUNNING -> running
          [] kind = PENDING -> scan

\* Tables of c Completed jobs followed by f Failed ones, and tables of up to
\* MaxStatRows jobs of any kinds.
StatTables ==
    UNION { { [i \in 1..(c + f) |->
                    StatRow(IF i <= c THEN "clean" ELSE FAILED, i)] :
                    f \in 0..(MaxScans - c) } : c \in 0..MaxScans }
    \cup
    UNION { { [i \in 1..n |-> StatRow(kinds[i], i)] :
                    kinds \in [1..n -> StatKinds] } : n \in 0..MaxStatRows }

InitStatistics ==
    /\ \E t \in StatTables : store = t /\ nextId = Len(t) + 1
    /\ cache = << >>
    /\ reqs = << >>
    /\ calls = 0
    /\ returned = NoCall
    /\ jobs = << >>
    /\ faults = 0
    /\ dels = << >>
    /\ ndel = 0
    /\ reply = NoReply
    /\ probe = [op |-> "getScanStatistics", pc |-> "total",
                totalScans |-> 0, completedScans |-> 0, failedScans |-> 0,
                runningScans |-> 0, totalVulnerabilities |-> 0, out |-> Null]

\* One await of getScanStatistics.
StatisticsStep(pc) ==
    /\ probe.op = "getScanStatistics"
    /\ probe.pc = pc
    /\ UNCHANGED <<store, cache, reqs, calls, returned, jobs, nextId, faults,
                   dels, ndel, reply>>

CountTotal ==
    /\ StatisticsStep("total")
    /\ probe' = [probe EXCEPT !.totalScans = Cardinality(DOMAIN store),
                              !.pc = "completed"]

CountCompleted ==
    /\ StatisticsStep("completed")
    /\ probe' = [probe EXCEPT !.completedScans = CountStatus(COMPLETED),
                              !.pc = "failed"]

CountFailed ==
    /\ StatisticsStep("failed")
    /\ probe' = [probe EXCEPT !.failedScans = CountStatus(FAILED),
                              !.pc = "running"]

CountRunning ==
    /\ StatisticsStep("running")
    /\ probe' = [probe EXCEPT !.runningScans = CountStatus(RUNNING),
                              !.pc = "sum"]

SumVulnerabilities ==
    /\ StatisticsStep("sum")
    /\ LET sum == SumVulnerabilityCount
       IN  probe' = [probe EXCEPT
                        !.totalVulnerabilities =
                            parseInt(IF sum # Null THEN sum[1] ELSE "0"),
                        !.pc = "detectors"]

\* The detector query, the counting of its rows, and the return.
DetectorStats ==
    /\ StatisticsStep("detectors")
    /\ \E detectorStats \in RowOrders(WithDetectors) :
        probe' = [probe EXCEPT
            !.pc = "done",
            !.out = Some(
                [totalScans |-> probe.totalScans,
                 completedScans |-> probe.completedScans,
                 failedScans |-> probe.failedScans,
                 runningScans |-> probe.runningScans,
                 totalVulnerabilities |-> probe.totalVulnerabilities,
                 averageVulnerabilitiesPerScan |->
                    averageVulnerabilitiesPerScan(probe.totalVulnerabilities,
                                                  probe.completedScans),
                 topDetectors |-> topDetectors(detectorStats),
                 successRate |-> successRate(probe.completedScans,
                                             probe.totalScans),
                 detectorStats |-> detectorStats])]

NextStatistics ==
    \/ CountTotal
    \/ CountCompleted
    \/ CountFailed
    \/ CountRunning
    \/ SumVulnerabilities
    \/ DetectorStats

SpecStatistics == InitStatistics /\ [][NextStatistics]_vars

\* The statistics a finished getScanStatistics call returned.
StatisticsReturned == probe.op = "getScanStatistics" /\ probe.out # Null

\* n / d rounded to the nearest integer, a half rounded up, and a half
\* rounded to the even neighbour.
RoundHalfUp(n, d) == (2 * n + d) \div (2 * d)
RoundHalfEven(n, d) ==
    IF (2 * n) % (2 * d) = d /\ (n \div d) % 2 = 0
    THEN n \div d ELSE RoundHalfUp(n, d)

\* C23: successRate is round(100 * completedScans / totalScans) when
\* totalScans > 0 (whichever way round treats a half) and 0 when totalScans
\* is 0; for totalScans = 100 and completedScans = 80 it is 80.
C23_SuccessRate ==
    /\ successRate(80, 100) = 80
    /\ StatisticsReturned =>
        LET out == probe.out[1]
        IN  IF out.totalScans > 0
            THEN out.successRate \in
                    { RoundHalfUp(100 * out.completedScans, out.totalScans),
                      RoundHalfEven(100 * out.completedScans, out.totalScans) }
            ELSE out.successRate = 0

\* The sum of vulnerabilityCount over the rows S, value by value.
RECURSIVE SumByValue(_, _)
SumByValue(S, values) ==
    IF values = {} THEN 0
    ELSE LET v == CHOOSE x \in values : TRUE
         IN  v * Cardinality({id \in S : store[id].vulnerabilityCount = v})
             + SumByValue(S, values \ {v})

CompletedJobs == {id \in DOMAIN store : store[id].status = COMPLETED}

\* C24: averageVulnerabilitiesPerScan is totalVulnerabilities /
\* completedScans rounded to the nearest integer when completedScans > 0 and
\* 0 when completedScans = 0, totalVulnerabilities being the sum of
\* vulnerabilityCount over the Completed jobs only.
C24_AverageVulnerabilities ==
    StatisticsReturned =>
        LET out == probe.out[1]
            total == SumByValue(CompletedJobs,
                        {store[id].vulnerabilityCount : id \in CompletedJobs})
            avg == out.averageVulnerabilitiesPerScan
        IN  /\ out.totalVulnerabilities = total
            /\ out.completedScans = Cardinality(CompletedJobs)
            /\ IF out.completedScans > 0
               THEN /\ 2 * (total - avg * out.completedScans) <= out.completedScans
                    /\ 2 * (avg * out.completedScans - total) <= out.completedScans
               ELSE avg = 0

\* Two Completed jobs with three findings between them and a Failed job that
\* kept the two findings of its saved result: the average is 2.
C24_Witness ==
    /\ StatisticsReturned
    /\ probe.out[1].completedScans = 2
    /\ probe.out[1].totalVulnerabilities = 3
    /\ probe.out[1].averageVulnerabilitiesPerScan = 2
    /\ \E id \in DOMAIN store :
            store[id].status = FAILED /\ store[id].vulnerabilityCount = 2

\* C25: runningScans is the number of persisted jobs that are Pending or
\* Running, so that totalScans = completedScans + failedScans + runningScans
\* in a store that does not change.
C25_RunningCountsPending ==
    StatisticsReturned =>
        LET out == probe.out[1]
        IN  /\ out.runningScans =
                    Cardinality({id \in DOMAIN store :
                                    store[id].status \in {PENDING, RUNNING}})
            /\ out.totalScans =
                    out.completedScans + out.failedScans + out.runningScans

\* C26: topDetectors lists at most 10 tags, those met most often in the
\* result summaries of the Completed jobs, each with its exact count, in
\* non-increasing order of count, ties (at the cut after the 10th too) going
\* to the tag met first.
C26_TopDetectors ==
    StatisticsReturned =>
        LET out == probe.out[1]
            rows == out.detectorStats
            top == out.topDetectors
            Places == {p \in (1..Len(rows)) \X (1..11) : p[2] <= Len(rows[p[1]])}
            Tags == {rows[p[1]][p[2]] : p \in Places}
            Count(t) == Cardinality({p \in Places : rows[p[1]][p[2]] = t})
            Earlier(p, q) == p[1] < q[1] \/ (p[1] = q[1] /\ p[2] < q[2])
            First(t) == CHOOSE p \in Places :
                            /\ rows[p[1]][p[2]] = t
                            /\ \A q \in Places :
                                    rows[q[1]][q[2]] = t => ~Earlier(q, p)
            Ahead(t) == {u \in Tags :
                            \/ Count(u) > Count(t)
                            \/ Count(u) = Count(t) /\ Earlier(First(u), First(t))}
        IN  \* the rows are the summaries of the Completed jobs
            /\ Len(rows) = Cardinality(CompletedJobs)
            /\ \A id \in CompletedJobs :
                    Cardinality({i \in 1..Len(rows) : rows[i] = DetectorTypesOf(id)})
                    = Cardinality({o \in CompletedJobs :
                                    DetectorTypesOf(o) = DetectorTypesOf(id)})
            /\ Len(top) = IF Cardinality(Tags) < 10 THEN Cardinality(Tags) ELSE 10
            /\ \A i \in 1..Len(top) :
                    /\ top[i].detector \in Tags
                    /\ top[i].count = Count(top[i].detector)
                    /\ Cardinality(Ahead(top[i].detector)) = i - 1

\* Twelve tags were met, two of them twice: the list has ten entries, the
\* two tags met twice first, and two tags met once are left out.
C26_Witness ==
    /\ StatisticsReturned
    /\ Len(probe.out[1].topDetectors) = 10
    /\ probe.out[1].topDetectors[1].count = 2
    /\ probe.out[1].topDetectors[2].count = 2
    /\ probe.out[1].topDetectors[3].count = 1
    /\ probe.out[1].topDetectors[10].count = 1
    /\ Len(probe.out[1].detectorStats) >= 2

----------------------------------------------------------------------------
\* The life of a job.

\* C27: every change of a job's persisted status is Pending -> Running,
\* Running -> Completed or Running -> Failed, whatever step of the pipeline
\* fails: no job is persisted as Failed or Completed that was not persisted
\* as Running before.
C27_StatusTransitions ==
    [][\A id \in DOMAIN store' :
            IF id \in DOMAIN store
            THEN store'[id].status # store[id].status =>
                    <<store[id].status, store'[id].status>> \in
                        { <<PENDING, RUNNING>>, <<RUNNING, COMPLETED>>,
                          <<RUNNING, FAILED>> }
            ELSE store'[id].status = PENDING]_vars

\* C28: scanRepository does not wait for the scan: when a call that created
\* a job returns, the job's scanner invocation has not returned (the
\* pipeline stands at its first await), and the snapshot returned is not
\* terminal: status Pending or Running, no result, no errorMessage.
C28_SubmitDoesNotWait ==
    returned.created # Null =>
        /\ returned.resp.kind = "ok"
        /\ returned.resp.body[1].scanId = returned.created[1]
        /\ returned.resp.body[1].status \in {PENDING, RUNNING}
        /\ returned.resp.body[1].result = Null
        /\ returned.resp.body[1].errorMessage = Null
        /\ jobs[returned.created[1]].pc = "saveRunning"
        /\ ~jobs[returned.created[1]].scanFailed
        /\ store[returned.created[1]].result = Null

\* A second job was created and its snapshot returned while the first job's
\* pipeline had already finished.
C28_Witness ==
    /\ returned.created = Some(2)
    /\ returned.resp.kind = "ok"
    /\ returned.resp.body[1].status = RUNNING
    /\ jobs[2].pc = "saveRunning"
    /\ jobs[1].pc = "done"

\* The scanRepository calls made when every write succeeds: a repository, the
\* same one rescanned by force for its verified findings, and a repository
\* that shares its cache key.
LiveScanRequests ==
    { <<UrlA, GITHUB, FALSE, FALSE>>, <<UrlA, GITHUB, TRUE, TRUE>>,
      <<UrlB, GITHUB, FALSE, FALSE>> }

\* The service when every store and cache operation succeeds: the steps
\* that inject no failure. The scanner may still return an error.
NextLive ==
    /\ \/ \E q \in LiveScanRequests : scanRepository(q[1], q[2], q[3], q[4])
       \/ \E r \in DOMAIN reqs : CheckExisting(r)
       \/ \E r \in DOMAIN reqs : CreateScan(r)
       \/ \E id \in DOMAIN jobs : SaveRunning(id)
       \/ \E id \in DOMAIN jobs : RunScanner(id)
       \/ \E id \in DOMAIN jobs : SaveCompleted(id)
       \/ \E id \in DOMAIN jobs : CacheResult(id)
       \/ \E id \in DOMAIN jobs : SaveFailed(id)
    /\ faults' = faults

\* The step of job id's pipeline that is due.
PipelineStep(id) ==
    /\ id \in DOMAIN jobs
    /\ \/ SaveRunning(id)
       \/ RunScanner(id)
       \/ SaveCompleted(id)
       \/ CacheResult(id)
       \/ SaveFailed(id)

\* Every awaited operation of a pipeline settles and the event loop then
\* runs the continuation: a pipeline step that is due is taken.
SpecLive ==
    /\ Init
    /\ [][NextLive]_vars
    /\ \A id \in 1..MaxRequests : WF_vars(PipelineStep(id) /\ faults' = faults)

\* C29: when the scanner returns, every write succeeds and nothing is
\* deleted, every job created by scanRepository is eventually persisted as
\* Completed or Failed with its pipeline finished; and if the scanner
\* returned a report, getScanById then shows status Completed, a result and
\* a vulnerabilityCount >= 0.
C29_EveryJobTerminates ==
    \A id \in 1..MaxRequests :
        (id \in DOMAIN jobs) ~>
            /\ id \in DOMAIN jobs
            /\ id \in DOMAIN store
            /\ jobs[id].pc = "done"
            /\ store[id].status \in TerminalStatus
            /\ ~jobs[id].scanFailed =>
                    /\ getScanById(id).kind = "ok"
                    /\ getScanById(id).body[1].scanId = id
                    /\ getScanById(id).body[1].status = COMPLETED
                    /\ getScanById(id).body[1].result # Null
                    /\ getScanById(id).body[1].vulnerabilityCount >= 0

\* One pipeline finished with a report and another with a scanner error.
C29_Witness ==
    /\ DOMAIN jobs = {1, 2}
    /\ jobs[1].pc = "done" /\ jobs[2].pc = "done"
    /\ store[1].status = COMPLETED /\ store[1].result # Null
    /\ store[2].status = FAILED /\ jobs[2].scanFailed
    /\ faults = 0

\* The jobs whose scanner failed and whose save of the failure failed too.
FailureLost ==
    {id \in DOMAIN jobs :
        jobs[id].scanFailed /\ jobs[id].writeFailed /\ jobs[id].pc = "done"}

\* C30: when the scanner fails and the store write that records the failure
\* fails too, the job stays persisted as Running, with no result and no
\* errorMessage, from then on; its pipeline wrote nothing to the cache; and
\* the error reaches no caller: a scanRepository call answers with an error
\* only for the failure of its own insert.
C30_LostFailureIsSwallowed ==
    /\ \A id \in FailureLost :
            /\ id \in DOMAIN store
            /\ store[id].status = RUNNING
            /\ store[id].result = Null
            /\ store[id].errorMessage = Null
            /\ jobs[id].cacheWrites = 0
            /\ ~jobs[id].cacheFailed
    /\ (FailureLost # {} /\ returned.resp.kind = "error") =>
            /\ returned.pc = "done"
            /\ returned.created = Null
            /\ "store.save" \in returned.ops

\* The first job's failure was lost, and a later submit for the same
\* repository was answered with that job, still Running.
C30_Witness ==
    /\ 1 \in FailureLost
    /\ store[1].status = RUNNING
    /\ returned.pc = "done"
    /\ returned.resp.kind = "ok"
    /\ returned.created = Null
    /\ returned.resp.body[1].scanId = 1
    /\ returned.resp.body[1].status = RUNNING

----------------------------------------------------------------------------
\* Failed writes, deletes and repeated submits.

\* The jobs whose save of Running or of Completed failed.
WriteLost ==
    {id \in DOMAIN jobs :
        jobs[id].writeFailed /\ ~jobs[id].scanFailed /\ ~jobs[id].cacheFailed}

\* C31: when the save of Running or the save of Completed fails, the job's
\* persisted status stays the one persisted last (Pending, or Running): the
\* pipeline persists no other status for the job afterwards.
C31_FailedWriteLeavesLastState ==
    \A id \in WriteLost :
        id \in DOMAIN store =>
            store[id].status =
                IF jobs[id].scan.result = Null THEN PENDING ELSE RUNNING

\* C32: a job that is Pending or Running can be deleted, and once its record
\* is removed the pipeline's later saves do not bring it back: no record
\* with the id exists in the store again.
C32_DeletedStaysDeleted ==
    [][\A id \in DOMAIN jobs :
            id \notin DOMAIN store => id \notin DOMAIN store']_vars

\* The jobs of a repository and provider in the store.
JobsOf(repoUrl, provider) ==
    {id \in DOMAIN store :
        store[id].repoUrl = repoUrl /\ store[id].provider = provider}

\* C33: a scanRepository call for a (repository, provider) whose jobs so far
\* are all Completed or Failed, and that found no cache entry, returns a new
\* job with an id no job had, and leaves the record of every job there was
\* as it is.
C33_RepeatCreatesNewJob ==
    [][(/\ returned'.pc = "done"
        /\ returned' # returned
        /\ returned'.resp.kind = "ok"
        /\ ~returned'.cachedOnArrival
        /\ JobsOf(returned'.repoUrl, returned'.provider) # {}
        /\ \A id \in JobsOf(returned'.repoUrl, returned'.provider) :
                store[id].status \in TerminalStatus)
       => /\ returned'.created # Null
          /\ returned'.created[1] \notin DOMAIN store
          /\ returned'.created[1] \in DOMAIN store'
          /\ returned'.resp.body[1].scanId = returned'.created[1]
          /\ ~returned'.resp.body[1].fromCache
          /\ \A id \in DOMAIN store :
                id \in DOMAIN store' /\ store'[id] = store[id]]_vars

\* The first job of the repository Failed, nothing was cached for it, and
\* the submit that was repeated created the second job.
C33_Witness ==
    /\ returned.pc = "done"
    /\ returned.created = Some(2)
    /\ ~returned.forceRescan
    /\ ~returned.cachedOnArrival
    /\ store[1].status = FAILED
    /\ store[1].repoUrl = returned.repoUrl
    /\ store[1].provider = returned.provider
    /\ store[2].status = PENDING

\* The pipelines that took a step.
Stepped == {id \in DOMAIN jobs : jobs'[id] # jobs[id]}

\* C34: id, repoUrl, provider and createdAt of every job keep the values of
\* its creation through every scanRepository call and pipeline step, and a
\* step of one job's pipeline writes to no other job's record.
C34_IdentityIsImmutable ==
    [][/\ \A id \in DOMAIN store :
            /\ id \in DOMAIN store'
            /\ store'[id].id = store[id].id
            /\ store'[id].repoUrl = store[id].repoUrl
            /\ store'[id].provider = store[id].provider
            /\ store'[id].createdAt = store[id].createdAt
            /\ store[id].id = id
       /\ \A id \in Stepped : \A o \in DOMAIN store \ {id} :
            store'[o] = store[o]]_vars

\* Two jobs of two repositories, the second saved as Completed while the
\* first, created before it, is still Running.
C34_Witness ==
    /\ DOMAIN store = {1, 2}
    /\ store[1].repoUrl # store[2].repoUrl
    /\ store[1].status = RUNNING
    /\ store[2].status = COMPLETED
    /\ store[1].createdAt = 1
    /\ store[2].createdAt = 2

----------------------------------------------------------------------------
\* The cache and the store.

\* C35: the cache key is injective on (repoUrl, provider): two jobs of
\* different (repoUrl, provider) never have the same key, and a
\* scanRepository call answered from the cache returns a snapshot of the
\* repository and provider it asked for.
C35_KeyInjective ==
    /\ \A a \in DOMAIN store, b \in DOMAIN store :
            <<store[a].repoUrl, store[a].provider>>
                # <<store[b].repoUrl, store[b].provider>>
            => generateScanKey(store[a].repoUrl, store[a].provider)
                # generateScanKey(store[b].repoUrl, store[b].provider)
    /\ (returned.resp.kind = "ok" /\ returned.resp.body[1].fromCache) =>
            /\ returned.resp.body[1].repoUrl = returned.repoUrl
            /\ returned.resp.body[1].provider = returned.provider

\* C36: in every reachable state each cache entry is the snapshot of a job
\* that exists in the store with status Completed (so the scanId of an
\* answer given from the cache resolves through getScanById).
C36_CacheCoherent ==
    \A k \in DOMAIN cache :
        /\ cache[k].scanId \in DOMAIN store
        /\ store[cache[k].scanId].status = COMPLETED

\* The Completed jobs of the repository and provider of job id.
CompletedLike(id) ==
    {o \in CompletedJobs : /\ store[o].repoUrl = store[id].repoUrl
                           /\ store[o].provider = store[id].provider}

\* C37: once every pipeline has finished, the cache entry of a (repoUrl,
\* provider) is the snapshot of the most recently created Completed job of
\* that pair, not of an older one that finished last.
C37_CacheHoldsLatest ==
    (\A id \in DOMAIN jobs : jobs[id].pc = "done") =>
        \A id \in CompletedJobs :
            LET key == generateScanKey(store[id].repoUrl, store[id].provider)
            IN  ( /\ key \in DOMAIN cache
                  /\ cache[key].repoUrl = store[id].repoUrl
                  /\ cache[key].provider = store[id].provider )
                => \A o \in CompletedLike(id) : cache[key].scanId >= o

----------------------------------------------------------------------------
\* getScanStatistics while submits and pipelines run.

\* getScanStatistics is called: nothing is read before its first await.
getScanStatistics ==
    /\ probe = NoProbe
    /\ probe' = [op |-> "getScanStatistics", pc |-> "total",
                 totalScans |-> 0, completedScans |-> 0, failedScans |-> 0,
                 runningScans |-> 0, totalVulnerabilities |-> 0, out |-> Null]
    /\ UNCHANGED <<store, cache, reqs, calls, returned, jobs, nextId, faults,
                   dels, ndel, reply>>

\* The awaits of one getScanStatistics call interleaved with scanRepository
\* calls and their pipelines, every store and cache operation succeeding.
NextConcurrentStatistics ==
    \/ getScanStatistics
    \/ NextStatistics
    \/ NextLive

SpecConcurrentStatistics == Init /\ [][NextConcurrentStatistics]_vars

\* C38: the statistics getScanStatistics returns are consistent even when
\* submits and pipelines run between its queries: completedScans +
\* failedScans + runningScans <= totalScans and 0 <= successRate <= 100.
C38_StatisticsConsistent ==
    StatisticsReturned =>
        LET out == probe.out[1]
        IN  /\ out.completedScans + out.failedScans + out.runningScans
                    <= out.totalScans
            /\ out.successRate >= 0
            /\ out.successRate <= 100

----------------------------------------------------------------------------
\* cleanupOldScans.

\* Clock ticks in a day: the resolution of timestamps.
TicksPerDay == 2
\* Latest clock reading.
MaxTime == 4
\* Jobs in the store when cleanupOldScans is called.
MaxCleanupRows == 4

\* Default value of the daysToKeep parameter.
DefaultDaysToKeep == 30

\* Date.getDate and Date.setDate on a timestamp: the day a timestamp falls
\* in, and the timestamp moved to another day at the same time of day.
getDate(date) == date \div TicksPerDay
setDate(date, day) == day * TicksPerDay + (date % TicksPerDay)

\* cutoffDate of cleanupOldScans
cutoffDate(now, daysToKeep) == setDate(now, getDate(now) - daysToKeep)

\* A delete that also takes the jobs created at the cutoff.
CreatedAtOrBefore(cutoff) ==
    {id \in DOMAIN store : store[id].createdAt <= cutoff}

\* where('createdAt < :cutoffDate')
CreatedBefore(cutoff) ==
    {id \in DOMAIN store : store[id].createdAt < cutoff}

\* Creation times of n jobs, in the order of their ids.
CreationTimes(n) ==
    {t \in [1..n -> 0..MaxTime] : \A i \in 1..n, j \in 1..n : i <= j => t[i] <= t[j]}

\* A table of jobs of every status, created at the times given.
CleanupTable(t) ==
    [i \in DOMAIN t |-> [HistoryRow(i) EXCEPT !.createdAt = t[i]]]

\* The values of daysToKeep: absent, or a number of days.
DaysToKeep == {Null} \cup {Some(d) : d \in -1..(MaxTime \div TicksPerDay)}

InitCleanup ==
    /\ \E n \in 0..MaxCleanupRows : \E t \in CreationTimes(n) :
        /\ store = CleanupTable(t)
        /\ nextId = n + 1
        /\ cache \in {<< >>} \cup
                { generateScanKey(store[id].repoUrl, store[id].provider)
                    :> formatScanResponse(store[id], FALSE) :
                        id \in CompletedJobs }
        /\ probe \in {[op |-> "cleanupOldScans", now |-> now,
                       daysToKeep |-> d, out |-> Null] :
                        now \in {c \in 0..MaxTime :
                                    \A i \in 1..n : t[i] <= c},
                        d \in DaysToKeep}
    /\ reqs = << >>
    /\ calls = 0
    /\ returned = NoCall
    /\ jobs = << >>
    /\ faults = 0
    /\ dels = << >>
    /\ ndel = 0
    /\ reply = NoReply

\* ScanService.cleanupOldScans
cleanupOldScans ==
    /\ probe.op = "cleanupOldScans"
    /\ probe.out = Null
    /\ LET daysToKeep == IF probe.daysToKeep = Null THEN DefaultDaysToKeep
                         ELSE probe.daysToKeep[1]
           affected == CreatedBefore(cutoffDate(probe.now, daysToKeep))
           count == Cardinality(affected)
       IN  /\ store' = [id \in DOMAIN store \ affected |-> store[id]]
           /\ probe' = [probe EXCEPT
                            !.out = Some(IF count # 0 THEN count ELSE 0)]
    /\ UNCHANGED <<cache, reqs, calls, returned, jobs, nextId, faults,
                   dels, ndel, reply>>

NextCleanup == cleanupOldScans

SpecCleanup == InitCleanup /\ [][NextCleanup]_vars

\* C39: cleanupOldScans(daysToKeep) removes exactly the jobs created
\* strictly before now minus daysToKeep days, whatever their status,
\* returns their number (0 when there is none), leaves the other jobs as
\* they were and leaves the cache as it was.
C39_CleanupRemovesOlderOnly ==
    [][ (probe.op = "cleanupOldScans" /\ probe.out = Null /\ probe'.out # Null)
        => LET days == IF probe.daysToKeep = Null THEN 30
                       ELSE probe.daysToKeep[1]
               old == {id \in DOMAIN store :
                        store[id].createdAt < probe.now - days * TicksPerDay}
           IN  /\ DOMAIN store' = DOMAIN store \ old
               /\ \A id \in DOMAIN store' : store'[id] = store[id]
               /\ probe'.out = Some(Cardinality(old))
               /\ cache' = cache ]_vars

\* A Completed and a Failed job were removed and 2 returned; the Running
\* job, created exactly at the cutoff, and the cache entry stayed.
C39_Witness ==
    /\ probe.op = "cleanupOldScans"
    /\ probe.out = Some(2)
    /\ probe.daysToKeep # Null
    /\ DOMAIN store = {3}
    /\ store[3].status = RUNNING
    /\ store[3].createdAt = probe.now - probe.daysToKeep[1] * TicksPerDay
    /\ cache # << >>

====
